---- MODULE Spec2Model ----
(***************************************************************************)
(* TexasProof: receipt emission and stop rules (src/src/core.py), the      *)
(* watcher engine (src/src/watcher.py), the genesis cycle                  *)
(* (src/src/genesis.py) and the simulation harness (src/src/sim.py).       *)
(*                                                                         *)
(* Python dicts are functions with a string domain; d.get(k, default) is   *)
(* Get(d, k, default).  Floats are integers in hundredths (0.7 is 70).     *)
(* A timestamp is a day number; NoTs stands for the empty string and       *)
(* BadTs for any other text datetime.fromisoformat rejects.                *)
(***************************************************************************)
EXTENDS Integers, Sequences, FiniteSets, TLC

VARIABLES
    clock,      \* the wall clock (datetime.now / utcnow), in days
    out,        \* standard output: the receipts printed by emit_receipt, in order
                \* (under SpecWatcher: those printed by the latest call)
    ret,        \* the last call made by a caller: its arguments, effects and result
    state,      \* the SimState (sim.py:52-60)
    run,        \* run_simulation's frame: position, config, locals
                \* (under SpecWatcher: the client's call count and generator)
    prev,       \* what an earlier execution of run_simulation printed and returned
    urandom     \* the operating system's randomness, as uuid.uuid4 draws on it

vars == <<clock, out, ret, state, run, prev, urandom>>

(***************************************************************************)
(* Python values                                                           *)
(***************************************************************************)
None == "<None>"
NoTs == -1
BadTs == -2
NonStringTs == -3
NotANumber == -999

Get(d, k, default) == IF k \in DOMAIN d THEN d[k] ELSE default

IsDict(r) == "py_not_a_dict" \notin DOMAIN r

NotADict == [py_not_a_dict |-> TRUE]

Range(s) == {s[i] : i \in DOMAIN s}

NoException == [type |-> "none"]

Min(S) == CHOOSE x \in S : \A y \in S : x <= y
Max(S) == CHOOSE x \in S : \A y \in S : x >= y

\* Every dict key of the program that reaches json.dumps, in sorted order
SortedKeys ==
    <<"action", "activation_count", "all_passed", "baseline", "birth_time",
      "blueprint_id", "case", "classification", "cycle", "cycles", "delta",
      "final_fitness", "fraud_probability", "graceful_failures", "metric",
      "occurrence_count",
      "occurrence_threshold", "passed", "pattern_id", "pattern_name",
      "payload_hash", "probability_threshold", "reason", "receipt_hash",
      "receipt_type", "scenarios_run", "severity", "source_pattern_id",
      "status", "tenant_id", "total_activations", "total_receipts",
      "triggered_by", "ts", "uncertainty_receipts", "watcher_id",
      "watchers_active", "wound_type">>

(***************************************************************************)
(* core.py                                                                 *)
(***************************************************************************)
TENANT_ID == "texasproof"

MAX_CONSECUTIVE_FAILURES == 2

GENESIS_AUTOCATALYSIS_THRESHOLD == 5

SCENARIO_NAMES ==
    <<"baseline", "stress", "genesis", "colony_ridge", "fund_diversion", "godel">>

\* Text handed to dual_hash: a str or bytes, the JSON text of a dict, or two
\* hash strings joined
Text(v) == [text |-> v]
Joined(h1, h2) == [joined |-> <<h1, h2>>]

\* json.dumps(data, sort_keys=True): the key/value pairs in key order
json_dumps_sorted(data) ==
    LET keys == SelectSeq(SortedKeys, LAMBDA k : k \in DOMAIN data)
    IN  [json |-> [i \in DOMAIN keys |-> <<keys[i], data[keys[i]]>>]]

\* Two digests of the same bytes, taken to be collision free
dual_hash(data) == [sha256_blake3 |-> data]

StopRuleException(message, metric, action) ==
    [type |-> "StopRuleException", message |-> message,
     metric |-> metric, action |-> action]

\* The receipt emit_receipt builds, prints and returns
emit_receipt(receipt_type, data, now) ==
    LET data1 == IF "tenant_id" \in DOMAIN data
                 THEN data ELSE data @@ [tenant_id |-> TENANT_ID]
        payload_hash == dual_hash(json_dumps_sorted(data1))
    IN  \* {"receipt_type": .., "ts": .., "tenant_id": .., "payload_hash": .., **data}
        data1 @@ [receipt_type |-> receipt_type,
                  ts |-> now,
                  tenant_id |-> Get(data1, "tenant_id", TENANT_ID),
                  payload_hash |-> payload_hash]

Emitted(r) == [ev |-> "emit", receipt |-> r]
Raised(e) == [ev |-> "raise", exc |-> e]

Quiet == [events |-> <<>>, raised |-> NoException]

\* As Breach, but raising without the anomaly receipt
Breach_without_receipt(metric, baseline, delta, classification, action, message, now) ==
    LET exc == StopRuleException(message, metric, action)
    IN  [events |-> <<Raised(exc)>>, raised |-> exc]

\* A guard that breaches: the anomaly receipt, then the raise
Breach(metric, baseline, delta, classification, action, message, now) ==
    LET exc == StopRuleException(message, metric, action)
    IN  [events |-> <<Emitted(emit_receipt("anomaly",
                        [metric |-> metric, baseline |-> baseline, delta |-> delta,
                         classification |-> classification, action |-> action], now)),
                      Raised(exc)>>,
         raised |-> exc]

stoprule_detection_rate(rate, threshold, now) ==
    IF rate < threshold
    THEN Breach("detection_rate", threshold, rate - threshold, "degradation",
                "halt", <<"Detection rate below threshold", rate, threshold>>, now)
    ELSE Quiet

stoprule_memory(current_gb, max_gb, now) ==
    IF current_gb > max_gb
    THEN Breach("memory_usage", max_gb, current_gb - max_gb, "violation",
                "compact", <<"Memory usage exceeds limit", current_gb, max_gb>>, now)
    ELSE Quiet

\* As stoprule_consecutive_failures, but breaching at the limit itself
stoprule_consecutive_failures_at_limit(failures, max_failures, now) ==
    IF failures >= max_failures
    THEN Breach("consecutive_failures", max_failures, failures - max_failures,
                "violation", "halt",
                <<"Consecutive failures exceeds maximum", failures, max_failures>>, now)
    ELSE Quiet

stoprule_consecutive_failures(failures, max_failures, now) ==
    IF failures > max_failures
    THEN Breach("consecutive_failures", max_failures, failures - max_failures,
                "violation", "halt",
                <<"Consecutive failures exceeds maximum", failures, max_failures>>, now)
    ELSE Quiet

\* [dual_hash(hashes[i] + hashes[i+1]) for i in range(0, len(hashes), 2)]
PairUp(hashes) ==
    [i \in 1..(Len(hashes) \div 2) |->
        dual_hash(Joined(hashes[2 * i - 1], hashes[2 * i]))]

RECURSIVE BuildTree_padding_with_first(_)
\* As BuildTree, but padding an odd level with its first hash
BuildTree_padding_with_first(hashes) ==
    IF Len(hashes) <= 1 THEN hashes[1]
    ELSE BuildTree_padding_with_first(
            PairUp(IF Len(hashes) % 2 = 1
                   THEN Append(hashes, hashes[1]) ELSE hashes))

RECURSIVE BuildTree(_)
BuildTree(hashes) ==
    IF Len(hashes) <= 1 THEN hashes[1]
    ELSE BuildTree(PairUp(IF Len(hashes) % 2 = 1
                          THEN Append(hashes, hashes[Len(hashes)]) ELSE hashes))

\* A value that is no dict, by its type and its str()
PyValue(type, str) == [py_not_a_dict |-> TRUE, type |-> type, str |-> str]

\* json.dumps(item, sort_keys=True) if isinstance(item, dict) else str(item)
LeafText(item) ==
    IF IsDict(item) THEN json_dumps_sorted(item) ELSE Text(item.str)

merkle(items) ==
    IF items = <<>> THEN dual_hash(Text("empty"))
    ELSE BuildTree([i \in DOMAIN items |-> dual_hash(LeafText(items[i]))])

validate_receipt(receipt) ==
    {"receipt_type", "ts", "tenant_id", "payload_hash"} \subseteq DOMAIN receipt

\* The receipts among a call's events, in order
EmittedReceipts(events) ==
    LET es == SelectSeq(events, LAMBDA e : e.ev = "emit")
    IN  [i \in DOMAIN es |-> es[i].receipt]

(***************************************************************************)
(* watcher.py                                                              *)
(***************************************************************************)
\* uuid.uuid4(): fresh within an execution, different from one execution to
\* the next, and untouched by random.seed
uuid4(ur) == <<ur.salt, ur.n>>

drawn(ur) == [ur EXCEPT !.n = @ + 1]

\* needle in hay, for the strings of this model
ProperSubstrings ==
    {<<"fund_diversion", "fund_diversion_scenario">>,
     <<"genesis", "genesis_scenario">>,
     <<"genesis", "genesis_birth">>,
     <<"violation", "constraint_violation">>}

Contains(needle, hay) ==
    needle = hay \/ needle = "" \/ <<needle, hay>> \in ProperSubstrings

\* Trigger predicates, by the shape of their code
\*   field_ge:     r.get("receipt_type") == rt and r.get(field, 0) >= min
\*   field_gt:     r.get("receipt_type") == rt and r.get(field, 0) > min
\*   field_truthy: r.get("receipt_type") == rt and r.get(field, False)
\*   genesis:      (rt in r.get("receipt_type", "") or ...) and r.get(field, 0) >= min
\*   wound_type:   r.get("wound_type") == rt
\*   always:       lambda r: True
\*   not_callable: trigger_condition is no callable
Trigger(kind, rt, field, min) ==
    [kind |-> kind, rt |-> rt, field |-> field, min |-> min]

Compare(kind, v, min) ==
    IF v = NotANumber THEN "TypeError"
    ELSE IF kind = "field_gt" THEN (IF v > min THEN "True" ELSE "False")
    ELSE (IF v >= min THEN "True" ELSE "False")

\* As Eval, but a genesis trigger holds of every receipt of its wound_type
Eval_on_wound_type(t, r) ==
    IF t.kind = "genesis" /\ IsDict(r) /\ Get(r, "wound_type", "") = t.rt
    THEN "True" ELSE "False"

\* trigger(receipt): "True", "False", or the exception it raises
Eval(t, r) ==
    IF t.kind = "always" THEN "True"
    ELSE IF ~IsDict(r) THEN "AttributeError"
    ELSE IF t.kind = "wound_type"
    THEN (IF Get(r, "wound_type", None) = t.rt THEN "True" ELSE "False")
    ELSE IF t.kind = "genesis"
    THEN LET rtype == Get(r, "receipt_type", "")
         IN  IF rtype = None THEN "TypeError"
             ELSE IF ~Contains(t.rt, rtype) THEN "False"
             ELSE Compare(t.kind, Get(r, t.field, 0), t.min)
    ELSE IF Get(r, "receipt_type", None) # t.rt THEN "False"
    ELSE IF t.kind = "field_truthy"
    THEN (IF Get(r, t.field, FALSE) THEN "True" ELSE "False")
    ELSE Compare(t.kind, Get(r, t.field, 0), t.min)

create_watcher(pattern_name, trigger_condition, now, ur) ==
    LET watcher_id == <<"watcher", uuid4(ur)>>
    IN  [value |-> [id |-> watcher_id,
                    pattern_name |-> pattern_name,
                    trigger_condition |-> trigger_condition,
                    created_at |-> now,
                    status |-> "blueprint",
                    activation_count |-> 0,
                    receipts_emitted |-> 0,
                    fitness |-> 0,
                    is_autocatalytic |-> FALSE],
         events |-> <<Emitted(emit_receipt("watcher_blueprint",
                        [tenant_id |-> TENANT_ID, watcher_id |-> watcher_id,
                         pattern_name |-> pattern_name, status |-> "created"],
                        now))>>,
         urandom |-> drawn(ur)]

\* The exception types run_watcher_cycle catches around trigger(receipt)
CaughtInCycle == {"TypeError", "ValueError"}

PyException(type) == [type |-> type]

\* As Fire, but leaving the watcher's activation_count as it was
Fire_without_count(acc, w, receipt, now) ==
    LET watcher == acc.watchers[w]
        response == [watcher_id |-> watcher.id,
                     pattern_name |-> watcher.pattern_name,
                     triggered_by |-> receipt,
                     action |-> "alert",
                     ts |-> now]
    IN  [acc EXCEPT !.responses = Append(@, response)]

\* One triggered pair: the response, the count, the watcher_triggered receipt
Fire(acc, w, receipt, now) ==
    LET watcher == acc.watchers[w]
        count == Get(watcher, "activation_count", 0) + 1
        response == [watcher_id |-> watcher.id,
                     pattern_name |-> watcher.pattern_name,
                     triggered_by |-> receipt,
                     action |-> "alert",
                     ts |-> now]
    IN  [acc EXCEPT
            !.responses = Append(@, response),
            !.watchers[w] = [activation_count |-> count] @@ watcher,
            !.events = Append(@, Emitted(emit_receipt("watcher_triggered",
                        [tenant_id |-> TENANT_ID, watcher_id |-> watcher.id,
                         pattern_name |-> watcher.pattern_name,
                         receipt_type |-> Get(receipt, "receipt_type", None),
                         activation_count |-> count], now)))]

RECURSIVE ReceiptLoop(_, _, _, _, _)
\* The inner loop of run_watcher_cycle: watcher w over receipts[j..]
ReceiptLoop(acc, receipts, w, j, now) ==
    IF j > Len(receipts) THEN acc
    ELSE LET e == Eval(acc.watchers[w].trigger_condition, receipts[j])
         IN  IF e = "True"
             THEN ReceiptLoop(Fire(acc, w, receipts[j], now), receipts, w, j + 1, now)
             ELSE IF e = "False" \/ e \in CaughtInCycle
             THEN ReceiptLoop(acc, receipts, w, j + 1, now)
             ELSE [acc EXCEPT !.raised = PyException(e),
                              !.events = Append(@, Raised(PyException(e)))]

RECURSIVE WatcherLoop(_, _, _, _)
\* The outer loop of run_watcher_cycle, from watcher w on
WatcherLoop(acc, receipts, w, now) ==
    IF w > Len(acc.watchers) THEN acc
    ELSE LET watcher == acc.watchers[w]
             trigger == Get(watcher, "trigger_condition", Trigger("not_callable", "", "", 0))
         IN  IF Get(watcher, "status", None) # "active" \/ trigger.kind = "not_callable"
             THEN WatcherLoop(acc, receipts, w + 1, now)
             ELSE LET after == ReceiptLoop(acc, receipts, w, 1, now)
                  IN  IF after.raised # NoException THEN after
                      ELSE WatcherLoop(after, receipts, w + 1, now)

\* run_watcher_cycle: the watchers as it leaves them, the responses it returns
\* (value), what it printed, and the exception that ended it, if any
run_watcher_cycle(watchers, receipts, now) ==
    LET acc == WatcherLoop([watchers |-> watchers, responses |-> <<>>,
                            events |-> <<>>, raised |-> NoException],
                           receipts, 1, now)
    IN  [watchers |-> acc.watchers, value |-> acc.responses,
         events |-> acc.events, raised |-> acc.raised]

\* As deactivate_watcher, but leaving the status as it was
deactivate_watcher_keeping_status(watcher, reason, now) ==
    LET w == [deactivation_reason |-> reason, deactivated_at |-> now] @@ watcher
    IN  [value |-> w,
         events |-> <<Emitted(emit_receipt("watcher_deactivated",
                        [tenant_id |-> TENANT_ID, watcher_id |-> w.id,
                         pattern_name |-> w.pattern_name, reason |-> reason,
                         total_activations |-> Get(w, "activation_count", 0),
                         final_fitness |-> Get(w, "fitness", 0)], now))>>]

deactivate_watcher(watcher, reason, now) ==
    LET w == [deactivation_reason |-> reason, deactivated_at |-> now,
              status |-> "inactive"] @@ watcher
    IN  [value |-> w,
         events |-> <<Emitted(emit_receipt("watcher_deactivated",
                        [tenant_id |-> TENANT_ID, watcher_id |-> w.id,
                         pattern_name |-> w.pattern_name, reason |-> reason,
                         total_activations |-> Get(w, "activation_count", 0),
                         final_fitness |-> Get(w, "fitness", 0)], now))>>]

\* The six default watchers: (pattern_name, trigger_condition)
FraudVectors ==
    <<<<"ols_high_risk",
        Trigger("field_ge", "ols_contractor", "fraud_probability", 70)>>,
      <<"pac_capture",
        Trigger("field_ge", "pac_influence", "capture_probability", 80)>>,
      <<"predatory_churn",
        Trigger("field_ge", "predatory_lending", "churn_count", 2)>>,
      <<"unauthorized_invoice",
        Trigger("field_gt", "unauthorized_invoice", "unauthorized_count", 0)>>,
      <<"trust_self_dealing",
        Trigger("field_truthy", "trust_disbursement", "is_self_dealing", 0)>>,
      <<"prohibited_contribution",
        Trigger("field_truthy", "prohibited_contribution", "is_state_contractor", 0)>>>>

RECURSIVE CreateAll(_, _, _, _)
\* create_watcher for each of specs[k..], in order
CreateAll(acc, specs, k, now) ==
    IF k > Len(specs) THEN acc
    ELSE LET c == create_watcher(specs[k][1], specs[k][2], now, acc.urandom)
         IN  CreateAll([value |-> Append(acc.value, c.value),
                        events |-> acc.events \o c.events,
                        urandom |-> c.urandom], specs, k + 1, now)

\* As Activate, but leaving the blueprint a blueprint
Activate_not(w) == w

Activate(w) == [w EXCEPT !.status = "active"]

create_fraud_vector_watchers(now, ur) ==
    LET made == CreateAll([value |-> <<>>, events |-> <<>>, urandom |-> ur],
                          FraudVectors, 1, now)
    IN  [made EXCEPT !.value = [i \in DOMAIN made.value |-> Activate(made.value[i])]]

(***************************************************************************)
(* genesis.py                                                              *)
(***************************************************************************)
LOOKBACK_DAYS == 30

\* datetime.fromisoformat(r.get("ts", "").replace("Z", "")): the day, or the
\* exception raised
ParseTs(ts) ==
    IF ts >= 0 THEN [ok |-> TRUE, day |-> ts, exc |-> "none"]
    ELSE IF ts = NonStringTs THEN [ok |-> FALSE, day |-> 0, exc |-> "AttributeError"]
    ELSE [ok |-> FALSE, day |-> 0, exc |-> "ValueError"]

IsWoundType(receipt_type) ==
    \/ Contains("wound", receipt_type)
    \/ Contains("anomaly", receipt_type)
    \/ Contains("violation", receipt_type)

\* One turn of the loop of harvest_wounds: the receipt is kept, passed over,
\* or ends the loop with an exception
HarvestStep(r, cutoff) ==
    IF ~IsDict(r) THEN "AttributeError"
    ELSE IF ~IsWoundType(Get(r, "receipt_type", "")) THEN "skip"
    ELSE LET t == ParseTs(Get(r, "ts", NoTs))
         IN  IF t.ok THEN (IF t.day >= cutoff THEN "keep" ELSE "skip")
             ELSE IF t.exc \in {"ValueError", "TypeError"} THEN "keep"
             ELSE t.exc

harvest_wounds(receipts, days, now) ==
    LET cutoff == now - days
        ending == {i \in DOMAIN receipts :
                      HarvestStep(receipts[i], cutoff) \notin {"keep", "skip"}}
        seen == IF ending = {} THEN receipts
                ELSE SubSeq(receipts, 1, Min(ending) - 1)
    IN  [value |-> SelectSeq(seen, LAMBDA r : HarvestStep(r, cutoff) = "keep"),
         raised |-> IF ending = {} THEN NoException
                    ELSE PyException(HarvestStep(receipts[Min(ending)], cutoff))]

GroupKey(w) == Get(w, "wound_type", Get(w, "receipt_type", "unknown"))

\* The keys of type_groups in insertion order
FirstSeen(wounds) ==
    LET firsts == {i \in DOMAIN wounds :
                      \A j \in 1..(i - 1) : GroupKey(wounds[j]) # GroupKey(wounds[i])}
    IN  [k \in 1..Cardinality(firsts) |->
            GroupKey(wounds[CHOOSE i \in firsts :
                               Cardinality({x \in firsts : x < i}) = k - 1])]

RECURSIVE SumSeq(_, _)
SumSeq(s, i) == IF i > Len(s) THEN 0 ELSE s[i] + SumSeq(s, i + 1)

Mean(s) == IF s = <<>> THEN 0 ELSE SumSeq(s, 1) \div Len(s)

\* The pattern identify_patterns builds for one group of wounds
Pattern(wound_type, group, ur) ==
    LET with_prob == SelectSeq(group, LAMBDA w : Get(w, "fraud_probability", 0) # 0)
        probabilities == [i \in DOMAIN with_prob |-> with_prob[i].fraud_probability]
        stamps == {Get(group[i], "ts", NoTs) : i \in DOMAIN group}
    IN  [pattern_id |-> <<"pattern", uuid4(ur)>>,
         wound_type |-> wound_type,
         occurrence_count |-> Len(group),
         first_occurrence |-> Min(stamps),
         last_occurrence |-> Max(stamps),
         avg_fraud_probability |-> Mean(probabilities),
         sample_wounds |-> SubSeq(group, 1, IF Len(group) < 5 THEN Len(group) ELSE 5),
         is_recurring |-> TRUE,
         exceeds_threshold |-> Len(group) >= GENESIS_AUTOCATALYSIS_THRESHOLD]

RECURSIVE PatternLoop(_, _, _, _)
PatternLoop(acc, wounds, keys, k) ==
    IF k > Len(keys) THEN acc
    ELSE LET group == SelectSeq(wounds, LAMBDA w : GroupKey(w) = keys[k])
         IN  IF Len(group) >= GENESIS_AUTOCATALYSIS_THRESHOLD
             THEN PatternLoop([value |-> Append(acc.value,
                                        Pattern(keys[k], group, acc.urandom)),
                               urandom |-> drawn(acc.urandom)],
                              wounds, keys, k + 1)
             ELSE PatternLoop(acc, wounds, keys, k + 1)

identify_patterns(wounds, ur) ==
    PatternLoop([value |-> <<>>, urandom |-> ur], wounds,
                FirstSeen(wounds), 1)

\* As GenesisName, but giving every wound type the same name
GenesisName_one_name(wound_type) == "genesis_unknown"

\* f"genesis_{wound_type}"
GenesisName(wound_type) ==
    CASE wound_type = "high_risk_contract" -> "genesis_high_risk_contract"
      [] wound_type = "suspicious_donation" -> "genesis_suspicious_donation"
      [] wound_type = "unauthorized_invoice" -> "genesis_unauthorized_invoice"
      [] wound_type = "audit_delay" -> "genesis_audit_delay"
      [] wound_type = "wound" -> "genesis_wound"
      [] wound_type = "anomaly" -> "genesis_anomaly"
      [] wound_type = "unknown" -> "genesis_unknown"

synthesize_blueprint(pattern, now, ur) ==
    LET wound_type == Get(pattern, "wound_type", "unknown")
        avg == Get(pattern, "avg_fraud_probability", 50) - 10
        min_probability == IF avg > 50 THEN avg ELSE 50
        id == <<"genesis", uuid4(ur)>>
    IN  [value |-> [id |-> id,
                    pattern_id |-> Get(pattern, "pattern_id", None),
                    pattern_name |-> GenesisName(wound_type),
                    wound_type |-> wound_type,
                    trigger_condition |->
                        Trigger("genesis", wound_type, "fraud_probability",
                                min_probability),
                    occurrence_threshold |->
                        Get(pattern, "occurrence_count", GENESIS_AUTOCATALYSIS_THRESHOLD),
                    probability_threshold |-> min_probability,
                    synthesized_at |-> now,
                    status |-> "blueprint",
                    source_pattern |-> pattern],
         events |-> <<Emitted(emit_receipt("genesis_blueprint",
                        [tenant_id |-> TENANT_ID, blueprint_id |-> id,
                         pattern_id |-> Get(pattern, "pattern_id", None),
                         wound_type |-> wound_type,
                         occurrence_count |-> Get(pattern, "occurrence_count", None),
                         probability_threshold |-> min_probability], now))>>,
         urandom |-> drawn(ur)]

emit_genesis_receipt(blueprint, now) ==
    emit_receipt("genesis_birth",
        [tenant_id |-> TENANT_ID,
         watcher_id |-> Get(blueprint, "id", None),
         pattern_name |-> Get(blueprint, "pattern_name", None),
         wound_type |-> Get(blueprint, "wound_type", None),
         occurrence_threshold |-> Get(blueprint, "occurrence_threshold", None),
         probability_threshold |-> Get(blueprint, "probability_threshold", None),
         source_pattern_id |-> Get(blueprint, "pattern_id", None),
         birth_time |-> now], now)

\* As PatternNames, but of the active watchers alone
PatternNames_of_active(watchers) ==
    {Get(watchers[i], "pattern_name", "") :
        i \in {j \in DOMAIN watchers : Get(watchers[j], "status", "") = "active"}}

PatternNames(watchers) ==
    {Get(watchers[i], "pattern_name", "") : i \in DOMAIN watchers}

\* As AlreadyCovered, but never passing over a pattern
AlreadyCovered_never(pattern_name, existing_patterns) == FALSE

\* Whether run_genesis_cycle passes over a pattern: a watcher with its name exists
AlreadyCovered(pattern_name, existing_patterns) ==
    pattern_name \in existing_patterns

RECURSIVE SpawnLoop(_, _, _, _, _)
\* The loop over patterns of run_genesis_cycle
SpawnLoop(acc, patterns, k, existing_patterns, now) ==
    IF k > Len(patterns) THEN acc
    ELSE LET pattern == patterns[k]
         IN  IF ~Get(pattern, "exceeds_threshold", FALSE)
                \/ AlreadyCovered(GenesisName(Get(pattern, "wound_type", "unknown")),
                                  existing_patterns)
             THEN SpawnLoop(acc, patterns, k + 1, existing_patterns, now)
             ELSE LET made == synthesize_blueprint(pattern, now, acc.urandom)
                      blueprint == Activate(made.value)
                  IN  SpawnLoop(
                        [acc EXCEPT
                            !.value.new_watchers = Append(@, blueprint),
                            !.value.watchers_spawned = @ + 1,
                            !.events = @ \o made.events
                                \o <<Emitted(emit_genesis_receipt(blueprint, now))>>,
                            !.urandom = made.urandom],
                        patterns, k + 1, existing_patterns, now)

\* run_genesis_cycle: the results dict (value), what it printed, the exception
\* that ended it, if any
run_genesis_cycle(receipts, existing_watchers, now, ur) ==
    LET existing_patterns == PatternNames(existing_watchers)
        results == [wounds_harvested |-> 0, patterns_identified |-> 0,
                    watchers_spawned |-> 0, new_watchers |-> <<>>, patterns |-> <<>>]
        harvest == harvest_wounds(receipts, LOOKBACK_DAYS, now)
        wounds == harvest.value
        found == identify_patterns(wounds, ur)
    IN  IF harvest.raised # NoException
        THEN [value |-> results, events |-> <<Raised(harvest.raised)>>,
              raised |-> harvest.raised, urandom |-> ur]
        ELSE IF wounds = <<>>
        THEN [value |-> results, events |-> <<>>, raised |-> NoException,
              urandom |-> ur]
        ELSE SpawnLoop([value |-> [results EXCEPT
                                      !.wounds_harvested = Len(wounds),
                                      !.patterns_identified = Len(found.value),
                                      !.patterns = found.value],
                        events |-> <<>>, raised |-> NoException,
                        urandom |-> found.urandom],
                       found.value, 1, existing_patterns, now)

(***************************************************************************)
(* entropy.py                                                              *)
(***************************************************************************)
RECURSIVE FloorLog2(_)
FloorLog2(n) == IF n < 2 THEN 0 ELSE 1 + FloorLog2(n \div 2)

RECURSIVE Pow2(_)
Pow2(k) == IF k = 0 THEN 1 ELSE 2 * Pow2(k - 1)

RECURSIVE FractionBits(_, _)
\* The first `bits` binary digits of log2(y / 4096), for 4096 <= y < 8192
FractionBits(y, bits) ==
    IF bits = 0 THEN 0
    ELSE LET sq == (y * y) \div 4096
         IN  IF sq >= 8192
             THEN Pow2(bits - 1) + FractionBits(sq \div 2, bits - 1)
             ELSE FractionBits(sq, bits - 1)

\* 1000 * log2(n), for n >= 1
Log2Milli(n) ==
    LET k == FloorLog2(n)
    IN  1000 * k + (1000 * FractionBits((n * 4096) \div Pow2(k), 10)) \div 1024

ReceiptTypeOf(r) == Get(r, "receipt_type", "unknown")

\* Counter(r.get("receipt_type", "unknown") for r in receipts)
TypeCount(receipts, t) ==
    Cardinality({i \in DOMAIN receipts : ReceiptTypeOf(receipts[i]) = t})

RECURSIVE Weighted(_, _)
\* The sum of count * log2(count), in thousandths, over the receipt types T
Weighted(receipts, T) ==
    IF T = {} THEN 0
    ELSE LET t == CHOOSE x \in T : TRUE
         IN  TypeCount(receipts, t) * Log2Milli(TypeCount(receipts, t))
                + Weighted(receipts, T \ {t})

\* Shannon entropy of the receipt_type distribution, in thousandths of a bit
system_entropy(receipts) ==
    IF receipts = <<>> THEN 0
    ELSE LET types == {ReceiptTypeOf(receipts[i]) : i \in DOMAIN receipts}
             n == Len(receipts)
         IN  Log2Milli(n) - Weighted(receipts, types) \div n

agent_fitness(receipts_before, receipts_after, pattern_count) ==
    IF pattern_count = 0 THEN 0
    ELSE (system_entropy(receipts_before) - system_entropy(receipts_after))
            \div pattern_count

\* The fitness measure_watcher_fitness finds at the activation at receipts[i]:
\* receipts[max(0, act_idx-10):act_idx] against receipts[act_idx:act_idx+10]
ActivationFitness(receipts, i) ==
    LET before == SubSeq(receipts, Max({1, i - 10}), i - 1)
        after == SubSeq(receipts, i, Min({Len(receipts), i + 9}))
    IN  IF before # <<>> /\ after # <<>> THEN agent_fitness(before, after, 1) ELSE 0

RECURSIVE TotalFitness(_, _)
TotalFitness(receipts, A) ==
    IF A = {} THEN 0
    ELSE ActivationFitness(receipts, Min(A)) + TotalFitness(receipts, A \ {Min(A)})

\* watcher.measure_watcher_fitness: the watcher as it leaves it, the fitness it
\* returns (value, in thousandths), the exception that ended it, if any
measure_watcher_fitness(watcher, receipts) ==
    LET trigger == Get(watcher, "trigger_condition", Trigger("not_callable", "", "", 0))
        e(i) == Eval(trigger, receipts[i])
        ending == {i \in DOMAIN receipts : e(i) \notin {"True", "False"} \cup CaughtInCycle}
        activations == {i \in DOMAIN receipts : e(i) = "True"}
        avg_fitness == TotalFitness(receipts, activations) \div Cardinality(activations)
        unmoved == [watcher |-> watcher, value |-> 0, events |-> <<>>,
                    raised |-> NoException]
    IN  IF receipts = <<>> \/ trigger.kind = "not_callable" THEN unmoved
        ELSE IF ending # {}
        THEN [unmoved EXCEPT !.raised = PyException(e(Min(ending))),
                             !.events = <<Raised(PyException(e(Min(ending))))>>]
        ELSE IF activations = {} THEN unmoved
        ELSE [unmoved EXCEPT
                !.watcher = [fitness |-> avg_fitness,
                             activation_count |-> Cardinality(activations)] @@ watcher,
                !.value = avg_fitness]

(***************************************************************************)
(* sim.py                                                                  *)
(***************************************************************************)
DEFAULT_SEED == 42

\* random: a generator whose stream is fixed by random.seed
RngModulus == 65537
Seeded(seed) == (seed + 1) % RngModulus
NextRng(x) == (75 * x + 74) % RngModulus
\* random.random(), in hundredths
Random(x) == (x * 100) \div RngModulus
\* random.choice(seq)
Choice(seq, x) == seq[(x % Len(seq)) + 1]

WoundTypes ==
    <<"high_risk_contract", "suspicious_donation", "unauthorized_invoice", "audit_delay">>

Severities == <<"low", "medium", "high">>

WATCHER_WINDOW == 10
GENESIS_INTERVAL == 50
VALIDATE_INTERVAL == 100

LastN(s, n) == IF Len(s) <= n THEN s ELSE SubSeq(s, Len(s) - n + 1, Len(s))

\* As GenerateWound, but putting the wound at the head of the ledger
GenerateWound_at_head(st, config, rng) ==
    LET cycle == st.cycle + 1
        d1 == NextRng(rng)
        d2 == NextRng(d1)
        d3 == NextRng(d2)
        wound == [receipt_type |-> "wound",
                  wound_type |-> Choice(WoundTypes, d2),
                  cycle |-> cycle,
                  severity |-> Choice(Severities, d3)]
    IN  IF Random(d1) < config.wound_rate
        THEN [state |-> [st EXCEPT !.cycle = cycle,
                                   !.wound_history = Append(@, wound),
                                   !.receipt_ledger = <<wound>> \o @],
              rng |-> d3]
        ELSE [state |-> [st EXCEPT !.cycle = cycle], rng |-> d1]

\* simulate_cycle, "Generate wounds with some probability" (sim.py:86-99):
\* the state and the generator after it
GenerateWound(st, config, rng) ==
    LET cycle == st.cycle + 1
        d1 == NextRng(rng)
        d2 == NextRng(d1)
        d3 == NextRng(d2)
        wound == [receipt_type |-> "wound",
                  wound_type |-> Choice(WoundTypes, d2),
                  cycle |-> cycle,
                  severity |-> Choice(Severities, d3)]
    IN  IF Random(d1) < config.wound_rate
        THEN [state |-> [st EXCEPT !.cycle = cycle,
                                   !.wound_history = Append(@, wound),
                                   !.receipt_ledger = Append(@, wound)],
              rng |-> d3]
        ELSE [state |-> [st EXCEPT !.cycle = cycle], rng |-> d1]

\* What a skipped "Run watchers" step leaves
NoCycle(watchers) ==
    [watchers |-> watchers, value |-> <<>>, events |-> <<>>, raised |-> NoException]

\* As AfterGenesis, but leaving the new watchers out of active_watchers
AfterGenesis_without_extend(st, rng, printed, gen) ==
    [state |-> st,
     rng |-> rng,
     events |-> printed \o gen.events,
     raised |-> gen.raised,
     urandom |-> gen.urandom,
     genesis_ran |-> "skipped" \notin DOMAIN gen]

\* simulate_cycle from "Genesis cycle every 50 cycles" on, `gen` being what
\* run_genesis_cycle came to
AfterGenesis(st, rng, printed, gen) ==
    [state |-> IF gen.raised = NoException
               THEN [st EXCEPT !.active_watchers = @ \o gen.value.new_watchers]
               ELSE st,
     rng |-> rng,
     events |-> printed \o gen.events,
     raised |-> gen.raised,
     urandom |-> gen.urandom,
     genesis_ran |-> "skipped" \notin DOMAIN gen]

\* What a cycle that is no multiple of GENESIS_INTERVAL has in place of the
\* result of run_genesis_cycle
NoGenesis(ur) ==
    [value |-> [new_watchers |-> <<>>], events |-> <<>>,
     raised |-> NoException, urandom |-> ur, skipped |-> TRUE]

\* As AfterWatchers, but with genesis every VALIDATE_INTERVAL cycles
AfterWatchers_genesis_every_100(st, rng, watch, now, ur) ==
    IF watch.raised # NoException
    THEN [state |-> [st EXCEPT !.active_watchers = watch.watchers],
          rng |-> rng, events |-> watch.events, raised |-> watch.raised,
          urandom |-> ur, genesis_ran |-> FALSE]
    ELSE AfterGenesis(
            [st EXCEPT !.active_watchers = watch.watchers,
                       !.receipt_ledger = @ \o watch.value,
                       !.entropy_trace =
                            Append(@, system_entropy(st.receipt_ledger \o watch.value))],
            rng, watch.events,
            IF st.cycle % VALIDATE_INTERVAL = 0
            THEN run_genesis_cycle(st.receipt_ledger \o watch.value, watch.watchers,
                                   now, ur)
            ELSE NoGenesis(ur))

\* simulate_cycle from "Compute entropy" on, `watch` being what
\* run_watcher_cycle came to
AfterWatchers(st, rng, watch, now, ur) ==
    IF watch.raised # NoException
    THEN [state |-> [st EXCEPT !.active_watchers = watch.watchers],
          rng |-> rng, events |-> watch.events, raised |-> watch.raised,
          urandom |-> ur, genesis_ran |-> FALSE]
    ELSE AfterGenesis(
            [st EXCEPT !.active_watchers = watch.watchers,
                       !.receipt_ledger = @ \o watch.value,
                       !.entropy_trace =
                            Append(@, system_entropy(st.receipt_ledger \o watch.value))],
            rng, watch.events,
            IF st.cycle % GENESIS_INTERVAL = 0
            THEN run_genesis_cycle(st.receipt_ledger \o watch.value, watch.watchers,
                                   now, ur)
            ELSE NoGenesis(ur))

\* simulate_cycle from "Run watchers" on
AfterWound(wounded, now, ur) ==
    AfterWatchers(wounded.state, wounded.rng,
                  IF wounded.state.active_watchers # <<>>
                  THEN run_watcher_cycle(wounded.state.active_watchers,
                                         LastN(wounded.state.receipt_ledger,
                                               WATCHER_WINDOW), now)
                  ELSE NoCycle(wounded.state.active_watchers),
                  now, ur)

\* simulate_cycle: the state as it leaves it, the generator, what it printed
simulate_cycle(st, config, rng, now, ur) ==
    AfterWound(GenerateWound(st, config, rng), now, ur)

Abs(x) == IF x < 0 THEN -x ELSE x

\* validate_constraints: the violation strings
validate_constraints(st, config) ==
    LET trace == st.entropy_trace
        initial == IF trace[1] > 0 THEN trace[1] ELSE 1000
        current == trace[Len(trace)]
        entropy == IF Len(trace) >= 2
                      /\ Abs(current - initial) * 100 > config.conservation_tolerance * initial
                   THEN <<(<<"Entropy change exceeds tolerance">>)>> ELSE <<>>
        wounds == IF Len(st.wound_history) * 100 > config.n_cycles * config.wound_rate * 2
                  THEN <<(<<"Wound accumulation exceeds expected rate">>)>> ELSE <<>>
    IN  entropy \o wounds

(***************************************************************************)
(* Bounds                                                                  *)
(***************************************************************************)
MaxOut == 1         \* receipts printed by direct calls into core.py
MaxMetric == 2      \* metric and limit values handed to the stop-rule guards

(***************************************************************************)
(* Initial values shared by the specifications                             *)
(***************************************************************************)
NoCall == [op |-> "none", events |-> <<>>, raised |-> NoException]

\* SimState() (sim.py:52-60)
SimState ==
    [active_watchers |-> <<>>, wound_history |-> <<>>, receipt_ledger |-> <<>>,
     entropy_trace |-> <<>>, violations |-> <<>>, cycle |-> 0]

Idle == [pc |-> "idle"]

(***************************************************************************)
(* Direct calls into core.py                                               *)
(***************************************************************************)
PayloadKeys == {"receipt_type", "payload_hash", "tenant_id"}

PayloadValue(k) ==
    CASE k = "receipt_type" -> "wound"
      [] k = "payload_hash" -> dual_hash(Text("forged"))
      [] k = "tenant_id" -> "other_tenant"

Payloads == {[k \in K |-> PayloadValue(k)] : K \in SUBSET PayloadKeys}

EmitTypes == {"ingest", "watcher_triggered"}

Metrics == 0..MaxMetric

Call_emit_receipt ==
    \E t \in EmitTypes, p \in Payloads :
        LET r == emit_receipt(t, p, clock)
        IN  /\ Len(out) < MaxOut
            /\ out' = Append(out, r)
            /\ ret' = [op |-> "emit_receipt", receipt_type |-> t, data |-> p,
                       value |-> r, events |-> <<Emitted(r)>>,
                       raised |-> NoException]
            /\ UNCHANGED <<clock, state, run, prev, urandom>>

CallGuard(op, a, b, res) ==
    /\ Len(out) + Len(EmittedReceipts(res.events)) <= MaxOut
    /\ out' = out \o EmittedReceipts(res.events)
    /\ ret' = [op |-> op, args |-> <<a, b>>, events |-> res.events,
               raised |-> res.raised]
    /\ UNCHANGED <<clock, state, run, prev, urandom>>

Call_stoprule_detection_rate ==
    \E rate \in Metrics, threshold \in Metrics :
        CallGuard("stoprule_detection_rate", rate, threshold,
                  stoprule_detection_rate(rate, threshold, clock))

Call_stoprule_memory ==
    \E current_gb \in Metrics, max_gb \in Metrics :
        CallGuard("stoprule_memory", current_gb, max_gb,
                  stoprule_memory(current_gb, max_gb, clock))

Call_stoprule_consecutive_failures ==
    \E failures \in Metrics, max_failures \in Metrics :
        CallGuard("stoprule_consecutive_failures", failures, max_failures,
                  stoprule_consecutive_failures(failures, max_failures, clock))

(***************************************************************************)
(* run_simulation (sim.py:149-226)                                         *)
(***************************************************************************)
MaxCycles == 100    \* the longest n_cycles configured
MaxSeed == 1        \* seeds 0..MaxSeed beside the default seed

SimConfig(n_cycles, wound_rate, random_seed) ==
    [n_cycles |-> n_cycles, wound_rate |-> wound_rate,
     conservation_tolerance |-> 10, random_seed |-> random_seed]

Configs ==
    {SimConfig(n, rate, seed) :
        n \in {0, 10, MaxCycles},
        rate \in {10, 40},
        seed \in {DEFAULT_SEED} \cup 0..MaxSeed}

\* The frame of a call of run_simulation, before its first statement
RunFrame(config, execution) ==
    [pc |-> "start", config |-> config, execution |-> execution,
     rng |-> 0, k |-> 0, i |-> 1,
     scenario_results |-> <<>>, all_passed |-> TRUE, consecutive_failures |-> 0,
     genesis_at |-> <<>>, validated_at |-> <<>>,
     started |-> <<>>, outcomes |-> <<>>,
     raised |-> NoException, result |-> [returned |-> FALSE]]

\* What running one scenario can come to
Outcomes == {"pass", "fail", "stop_rule", "error"}

ScenarioReceiptType(name) ==
    CASE name = "baseline" -> "baseline_scenario"
      [] name = "stress" -> "stress_scenario"
      [] name = "genesis" -> "genesis_scenario"
      [] name = "colony_ridge" -> "colony_ridge_scenario"
      [] name = "fund_diversion" -> "fund_diversion_scenario"
      [] name = "godel" -> "godel_scenario"

\* scenarios.run_scenario(name, seed=...): the ScenarioResult (value), what the
\* scenario printed, and the exception it raised, if any
run_single_scenario(name, outcome, now) ==
    LET passed == outcome = "pass"
        guard == stoprule_detection_rate(0, 70, now)
    IN  CASE outcome \in {"pass", "fail"} ->
                [value |-> [name |-> name, passed |-> passed, metrics |-> "metrics",
                            receipts |-> <<>>,
                            violations |-> IF passed THEN <<>>
                                           ELSE <<"threshold not met">>],
                 events |-> <<Emitted(emit_receipt(ScenarioReceiptType(name),
                                [tenant_id |-> TENANT_ID, passed |-> passed], now))>>,
                 raised |-> NoException]
          [] outcome = "stop_rule" ->
                [value |-> None, events |-> guard.events, raised |-> guard.raised]
          [] outcome = "error" ->
                [value |-> None, events |-> <<Raised(PyException("RuntimeError"))>>,
                 raised |-> PyException("RuntimeError")]

\* An execution that came before: what it printed, its seed, and how each
\* scenario it ran came out
NoPrev == [executed |-> FALSE, out |-> <<>>, seed |-> 0, outcomes |-> <<>>,
           result |-> [returned |-> FALSE]]

\* Each scenario seeds random with its seed argument (scenarios.py:73), so a
\* scenario already run with this seed comes out as it did then
OutcomesOf(name, seed) ==
    IF prev.executed /\ prev.seed = seed /\ name \in DOMAIN prev.outcomes
    THEN {prev.outcomes[name]}
    ELSE Outcomes

Sim_Start ==
    /\ run.pc = "start"
    /\ LET made == create_fraud_vector_watchers(clock, urandom)
       IN  /\ state' = [SimState EXCEPT !.active_watchers = made.value]
           /\ out' = out \o EmittedReceipts(made.events)
           /\ urandom' = made.urandom
           /\ run' = [run EXCEPT
                        !.rng = Seeded(run.config.random_seed),
                        !.pc = IF run.config.n_cycles = 0 THEN "scenarios" ELSE "cycles"]
    /\ UNCHANGED <<clock, ret, prev>>

Sim_Cycle ==
    /\ run.pc = "cycles"
    /\ run.k < run.config.n_cycles
    /\ LET res == simulate_cycle(state, run.config, run.rng, clock, urandom)
           st == res.state
           checked == IF st.cycle % VALIDATE_INTERVAL = 0
                      THEN [st EXCEPT !.violations = @ \o validate_constraints(st, run.config)]
                      ELSE st
       IN  /\ out' = out \o EmittedReceipts(res.events)
           /\ urandom' = res.urandom
           /\ IF res.raised # NoException
              THEN /\ state' = st
                   /\ run' = [run EXCEPT !.rng = res.rng, !.pc = "raised",
                                         !.raised = res.raised]
              ELSE /\ state' = checked
                   /\ run' = [run EXCEPT
                                !.rng = res.rng, !.k = @ + 1,
                                !.genesis_at = IF res.genesis_ran
                                               THEN Append(@, st.cycle) ELSE @,
                                !.validated_at = IF st.cycle % VALIDATE_INTERVAL = 0
                                                 THEN Append(@, st.cycle) ELSE @,
                                !.pc = IF run.k + 1 = run.config.n_cycles
                                       THEN "scenarios" ELSE "cycles"]
    /\ UNCHANGED <<clock, ret, prev>>

\* As AfterResult, but leaving all_passed as it was
AfterResult_keeping_all_passed(frame, name, scenario) ==
    LET result == scenario.value
        entry == [passed |-> result.passed, metrics |-> result.metrics,
                  violations |-> result.violations]
        recorded == [frame EXCEPT !.scenario_results = (name :> entry) @@ @]
        failures == frame.consecutive_failures + 1
    IN  IF result.passed
        THEN [recorded EXCEPT !.consecutive_failures = 0]
        ELSE [recorded EXCEPT
                !.consecutive_failures = failures,
                !.pc = IF failures > MAX_CONSECUTIVE_FAILURES THEN "break" ELSE @]

\* What the loop body does once run_single_scenario returned `scenario`
AfterResult(frame, name, scenario) ==
    LET result == scenario.value
        entry == [passed |-> result.passed, metrics |-> result.metrics,
                  violations |-> result.violations]
        recorded == [frame EXCEPT !.scenario_results = (name :> entry) @@ @]
        failures == frame.consecutive_failures + 1
    IN  IF result.passed
        THEN [recorded EXCEPT !.consecutive_failures = 0]
        ELSE [recorded EXCEPT
                !.all_passed = FALSE,
                !.consecutive_failures = failures,
                !.pc = IF failures > MAX_CONSECUTIVE_FAILURES THEN "break" ELSE @]

\* As AfterException, but leaving no entry for the scenario
AfterException_unrecorded(frame, name, exc) ==
    IF exc.type = "StopRuleException"
    THEN [frame EXCEPT !.all_passed = FALSE, !.consecutive_failures = @ + 1]
    ELSE [frame EXCEPT !.pc = "raised", !.raised = exc]

\* What the loop body does once run_single_scenario raised `exc`
AfterException(frame, name, exc) ==
    IF exc.type = "StopRuleException"
    THEN [frame EXCEPT
            !.scenario_results =
                (name :> [passed |-> FALSE, error |-> exc.message,
                          violations |-> <<exc.message>>]) @@ @,
            !.all_passed = FALSE,
            !.consecutive_failures = @ + 1]
    ELSE [frame EXCEPT !.pc = "raised", !.raised = exc]

\* Where the for loop over SCENARIO_NAMES goes after a body that left pc alone
NextScenario(frame) ==
    IF frame.pc = "break" THEN [frame EXCEPT !.pc = "finish"]
    ELSE IF frame.pc = "raised" THEN frame
    ELSE [frame EXCEPT !.i = @ + 1,
                       !.pc = IF frame.i = Len(SCENARIO_NAMES) THEN "finish" ELSE @]

ConsecutiveFailuresViolation(failures) ==
    <<"Consecutive failures exceed maximum", failures>>

Sim_Scenario ==
    /\ run.pc = "scenarios"
    /\ \E outcome \in OutcomesOf(SCENARIO_NAMES[run.i], run.config.random_seed) :
        LET name == SCENARIO_NAMES[run.i]
            scenario == run_single_scenario(name, outcome, clock)
            entered == [run EXCEPT !.started = Append(@, name),
                                   !.outcomes = (name :> outcome) @@ @]
            body == IF scenario.raised = NoException
                    THEN AfterResult(entered, name, scenario)
                    ELSE AfterException(entered, name, scenario.raised)
        IN  /\ out' = out \o EmittedReceipts(scenario.events)
            /\ run' = NextScenario(body)
            /\ state' = IF body.pc = "break"
                        THEN [state EXCEPT !.violations = Append(@,
                                ConsecutiveFailuresViolation(body.consecutive_failures))]
                        ELSE state
    /\ UNCHANGED <<clock, ret, prev, urandom>>

\* As SimCompleteData, but counting the scenarios of SCENARIO_NAMES
SimCompleteData_counting_names(frame, st, receipt_hash) ==
    [tenant_id |-> TENANT_ID,
     cycles |-> frame.config.n_cycles,
     all_passed |-> frame.all_passed,
     scenarios_run |-> Len(SCENARIO_NAMES),
     watchers_active |-> Len(st.active_watchers),
     total_receipts |-> Len(st.receipt_ledger),
     receipt_hash |-> receipt_hash]

\* The data of the sim_complete receipt (sim.py:210-218)
SimCompleteData(frame, st, receipt_hash) ==
    [tenant_id |-> TENANT_ID,
     cycles |-> frame.config.n_cycles,
     all_passed |-> frame.all_passed,
     scenarios_run |-> Cardinality(DOMAIN frame.scenario_results),
     watchers_active |-> Len(st.active_watchers),
     total_receipts |-> Len(st.receipt_ledger),
     receipt_hash |-> receipt_hash]

Sim_Finish ==
    /\ run.pc = "finish"
    /\ LET receipt_hash == IF state.receipt_ledger # <<>>
                           THEN merkle(state.receipt_ledger) ELSE Text("empty")
           done == emit_receipt("sim_complete",
                                SimCompleteData(run, state, receipt_hash), clock)
       IN  /\ out' = Append(out, done)
           /\ run' = [run EXCEPT
                        !.pc = "done",
                        !.result = [returned |-> TRUE,
                                    final_state |-> state,
                                    all_passed |-> run.all_passed,
                                    scenario_results |-> run.scenario_results,
                                    violations |-> state.violations,
                                    receipt_hash |-> receipt_hash]]
    /\ UNCHANGED <<clock, ret, state, prev, urandom>>

InitSim ==
    /\ clock = 0
    /\ out = <<>>
    /\ ret = NoCall
    /\ state = SimState
    /\ \E config \in Configs : run = RunFrame(config, 1)
    /\ prev = NoPrev
    /\ urandom = [salt |-> 0, n |-> 0]

NextSim ==
    \/ Sim_Start
    \/ Sim_Cycle
    \/ Sim_Scenario
    \/ Sim_Finish

SpecSim == InitSim /\ [][NextSim]_vars

(***************************************************************************)
(* Two executions of run_simulation with one SimConfig                     *)
(***************************************************************************)
MaxSalt == 1        \* the operating system's randomness differs in 0..MaxSalt

\* A second process runs run_simulation with the same SimConfig
Sim_Rerun ==
    /\ run.pc = "done"
    /\ run.execution = 1
    /\ prev' = [executed |-> TRUE, out |-> out, seed |-> run.config.random_seed,
                outcomes |-> run.outcomes, result |-> run.result]
    /\ out' = <<>>
    /\ state' = SimState
    /\ run' = RunFrame(run.config, 2)
    /\ \E salt \in 0..MaxSalt : urandom' = [salt |-> salt, n |-> 0]
    /\ clock' = clock + 1
    /\ UNCHANGED ret

InitDet ==
    /\ clock = 0
    /\ out = <<>>
    /\ ret = NoCall
    /\ state = SimState
    /\ \E n \in {0, GENESIS_INTERVAL} : run = RunFrame(SimConfig(n, 40, DEFAULT_SEED), 1)
    /\ prev = NoPrev
    /\ urandom = [salt |-> 0, n |-> 0]

NextDet ==
    \/ Sim_Start
    \/ Sim_Cycle
    \/ Sim_Scenario
    \/ Sim_Finish
    \/ Sim_Rerun

SpecDet == InitDet /\ [][NextDet]_vars

(***************************************************************************)
(* A client of the watcher engine and of genesis: calls on the watchers    *)
(* and the receipt ledger of one SimState                                  *)
(***************************************************************************)
MaxCalls == 4       \* calls the client makes

Ols(fraud_probability) ==
    [receipt_type |-> "ols_contractor", fraud_probability |-> fraud_probability]

Wound(fraud_probability) ==
    [receipt_type |-> "wound", fraud_probability |-> fraud_probability, ts |-> 0]

TypedWound(wound_type) ==
    [receipt_type |-> "wound", wound_type |-> wound_type, ts |-> 0]

\* Receipt batches handed to run_watcher_cycle and measure_watcher_fitness:
\* a field of the wrong type before a good receipt, a receipt that is no dict
\* before a good receipt, and two wounds around a contractor receipt
Batches ==
    {<<Ols(NotANumber), Ols(80)>>, <<NotADict, Ols(80)>>,
     <<Wound(90), Ols(80), Wound(95)>>}

\* Ledgers the client starts from: none, and two recurring wound types with
\* a third that is one short of recurring
Ledgers ==
    {<<>>,
     [i \in 1..(3 * GENESIS_AUTOCATALYSIS_THRESHOLD - 1) |->
        IF i % 3 = 1 THEN Wound(90)
        ELSE IF i % 3 = 2 THEN TypedWound("audit_delay")
        ELSE TypedWound("suspicious_donation")]}

Client(calls, rng) ==
    [pc |-> "client", calls |-> calls, rng |-> rng,
     config |-> SimConfig(MaxCalls, 100, DEFAULT_SEED)]

\* What every call of the client does besides its own effect
Called(record, events) ==
    /\ run.pc = "client"
    /\ run.calls < MaxCalls
    /\ ret' = record
    /\ out' = EmittedReceipts(events)
    /\ UNCHANGED <<clock, prev>>

Counted == [run EXCEPT !.calls = @ + 1]

Client_create_watcher ==
    LET made == create_watcher(FraudVectors[1][1], FraudVectors[1][2], clock, urandom)
    IN  /\ Called([op |-> "create_watcher", value |-> made.value,
                   events |-> made.events, raised |-> NoException], made.events)
        /\ state' = [state EXCEPT !.active_watchers = Append(@, made.value)]
        /\ urandom' = made.urandom
        /\ run' = Counted

Client_create_fraud_vector_watchers ==
    LET made == create_fraud_vector_watchers(clock, urandom)
    IN  /\ state.active_watchers = <<>>
        /\ Called([op |-> "create_fraud_vector_watchers", value |-> made.value,
                   events |-> made.events, raised |-> NoException], made.events)
        /\ state' = [state EXCEPT !.active_watchers = made.value]
        /\ urandom' = made.urandom
        /\ run' = Counted

Client_run_watcher_cycle ==
    \E batch \in Batches :
        LET res == run_watcher_cycle(state.active_watchers, batch, clock)
        IN  /\ state.active_watchers # <<>>
            /\ Called([op |-> "run_watcher_cycle", batch |-> batch,
                       value |-> res.value, events |-> res.events,
                       raised |-> res.raised], res.events)
            /\ state' = [state EXCEPT !.active_watchers = res.watchers]
            /\ run' = Counted
            /\ UNCHANGED urandom

Client_measure_watcher_fitness ==
    \E w \in DOMAIN state.active_watchers, batch \in Batches :
        LET res == measure_watcher_fitness(state.active_watchers[w], batch)
        IN  /\ Called([op |-> "measure_watcher_fitness", target |-> w,
                       batch |-> batch, value |-> res.value,
                       events |-> res.events, raised |-> res.raised], res.events)
            /\ state' = [state EXCEPT !.active_watchers[w] = res.watcher]
            /\ run' = Counted
            /\ UNCHANGED urandom

Client_deactivate_watcher ==
    \E w \in DOMAIN state.active_watchers :
        LET res == deactivate_watcher(state.active_watchers[w], "low_fitness", clock)
        IN  /\ Called([op |-> "deactivate_watcher", target |-> w,
                       value |-> res.value, events |-> res.events,
                       raised |-> NoException], res.events)
            /\ state' = [state EXCEPT !.active_watchers[w] = res.value]
            /\ run' = Counted
            /\ UNCHANGED urandom

\* run_genesis_cycle(ledger, watchers), the new watchers joining the watchers
\* as in simulate_cycle (sim.py:113-115)
Client_run_genesis_cycle ==
    LET res == run_genesis_cycle(state.receipt_ledger, state.active_watchers,
                                 clock, urandom)
        first == IF ret.op = "run_genesis_cycle"
                 THEN [op |-> ret.op, receipts |-> ret.receipts,
                       existing |-> ret.existing, value |-> ret.value,
                       raised |-> ret.raised]
                 ELSE [op |-> "none"]
    IN  /\ Called([op |-> "run_genesis_cycle", receipts |-> state.receipt_ledger,
                   existing |-> state.active_watchers, value |-> res.value,
                   events |-> res.events, raised |-> res.raised, first |-> first],
                  res.events)
        /\ state' = [state EXCEPT !.active_watchers = @ \o res.value.new_watchers]
        /\ urandom' = res.urandom
        /\ run' = Counted

Client_simulate_cycle ==
    LET res == simulate_cycle(state, run.config, run.rng, clock, urandom)
    IN  /\ Called([op |-> "simulate_cycle", value |-> res.state.cycle,
                   events |-> res.events, raised |-> res.raised], res.events)
        /\ state' = res.state
        /\ urandom' = res.urandom
        /\ run' = [Counted EXCEPT !.rng = res.rng]

InitWatcher ==
    /\ clock = 0
    /\ out = <<>>
    /\ ret = NoCall
    /\ \E ledger \in Ledgers, cycle \in {0, GENESIS_INTERVAL - 1} :
          state = [SimState EXCEPT !.receipt_ledger = ledger, !.cycle = cycle]
    /\ run = Client(0, Seeded(DEFAULT_SEED))
    /\ prev = NoPrev
    /\ urandom = [salt |-> 0, n |-> 0]

NextWatcher ==
    \/ Client_create_watcher
    \/ Client_create_fraud_vector_watchers
    \/ Client_run_watcher_cycle
    \/ Client_measure_watcher_fitness
    \/ Client_deactivate_watcher
    \/ Client_run_genesis_cycle
    \/ Client_simulate_cycle

SpecWatcher == InitWatcher /\ [][NextWatcher]_vars

(***************************************************************************)
(* Properties of run_simulation                                            *)
(***************************************************************************)
Aborted(violations) ==
    \E j \in DOMAIN violations :
        violations[j][1] = "Consecutive failures exceed maximum"

\* C1: another scenario is started only while the consecutive-failure counter
\* is at most MAX_CONSECUTIVE_FAILURES, however the failures came about
\* (passed=false or StopRuleException); once it is above, the loop has stopped
\* and the 'Consecutive failures' violation is recorded.
C1_AbortOnceCounterExceedsMax ==
    /\ run.pc = "scenarios" => run.consecutive_failures <= MAX_CONSECUTIVE_FAILURES
    /\ run.pc = "done" /\ run.consecutive_failures > MAX_CONSECUTIVE_FAILURES
           => Aborted(run.result.violations)

\* The part of C1 the code keeps: passed=false results alone
C1_Kept_AbortOnFailedResults ==
    (run.pc \in {"scenarios", "finish", "done"}
        /\ \A name \in DOMAIN run.outcomes : run.outcomes[name] \in {"pass", "fail"})
    => /\ run.pc = "scenarios" =>
              run.consecutive_failures <= MAX_CONSECUTIVE_FAILURES
       /\ run.consecutive_failures > MAX_CONSECUTIVE_FAILURES =>
              Aborted(state.violations)
       /\ run.pc = "done" /\ ~Aborted(state.violations) =>
              Len(run.started) = Len(SCENARIO_NAMES)

\* C2: run_simulation returns a result whose scenario_results has exactly 6
\* entries and whose receipt_hash is a non-empty string, whatever the
\* scenarios' outcomes.
C2_SixEntriesAlways ==
    run.pc = "done" =>
        /\ Cardinality(DOMAIN run.result.scenario_results) = Len(SCENARIO_NAMES)
        /\ run.result.receipt_hash # Text("")

\* C2 as amended: the result has one entry per scenario run; that is all 6
\* unless a passed=false result took the consecutive-failure counter above
\* MAX_CONSECUTIVE_FAILURES and ended the loop, and then it is more than
\* MAX_CONSECUTIVE_FAILURES entries; the receipt_hash is a non-empty string.
C2_EntryPerScenarioRun ==
    run.pc = "done" =>
        LET results == run.result.scenario_results
            n == Cardinality(DOMAIN results)
        IN  /\ DOMAIN results = Range(run.started)
            /\ IF Aborted(run.result.violations)
               THEN /\ n > MAX_CONSECUTIVE_FAILURES
                    /\ n <= Len(SCENARIO_NAMES)
                    /\ DOMAIN results = {SCENARIO_NAMES[j] : j \in 1..n}
               ELSE DOMAIN results = Range(SCENARIO_NAMES)
            /\ run.result.receipt_hash # Text("")
            /\ run.result.receipt_hash \in
                    {Text("empty"), merkle(run.result.final_state.receipt_ledger)}

C2_Witness ==
    /\ run.pc = "done"
    /\ Aborted(run.result.violations)
    /\ Cardinality(DOMAIN run.result.scenario_results) = MAX_CONSECUTIVE_FAILURES + 1
    /\ run.result.final_state.receipt_ledger # <<>>

\* C3: an exception of any type raised while a scenario runs becomes a
\* scenario_results entry with passed=false and the message among its
\* violations, counts as a failure, and does not leave run_simulation.
C3_ScenarioExceptionsAreAbsorbed ==
    /\ run.raised = NoException
    /\ \A name \in DOMAIN run.outcomes :
          run.outcomes[name] \in {"stop_rule", "error"} =>
              /\ name \in DOMAIN run.scenario_results
              /\ ~run.scenario_results[name].passed
              /\ run.scenario_results[name].violations # <<>>

\* C11: at every point of run_simulation every entry of the receipt ledger is
\* a receipt emit_receipt produced: it has receipt_type, ts, tenant_id and
\* payload_hash, so validate_receipt holds of it.
C11_LedgerHoldsReceipts ==
    \A j \in DOMAIN state.receipt_ledger :
        validate_receipt(state.receipt_ledger[j])

\* C12: the receipt_hash run_simulation returns, and the one its sim_complete
\* receipt carries, is merkle(final receipt_ledger), the empty ledger
\* included (merkle([]), the hash of the sentinel).
C12_ReceiptHashIsMerkleRoot ==
    run.pc = "done" =>
        /\ run.result.receipt_hash = merkle(run.result.final_state.receipt_ledger)
        /\ out[Len(out)].receipt_type = "sim_complete"
        /\ out[Len(out)].receipt_hash = run.result.receipt_hash

\* The part of C12 the code keeps: a ledger that is not empty
C12_Kept_NonEmptyLedger ==
    (run.pc = "done" /\ run.result.final_state.receipt_ledger # <<>>) =>
        /\ run.result.receipt_hash = merkle(run.result.final_state.receipt_ledger)
        /\ out[Len(out)].receipt_type = "sim_complete"
        /\ out[Len(out)].receipt_hash = run.result.receipt_hash

\* C8: two executions of run_simulation with the same SimConfig print the
\* same receipts, wall-clock fields aside.
WallClockFields == {"ts", "birth_time", "payload_hash"}

WithoutWallClock(receipts) ==
    [j \in DOMAIN receipts |->
        [k \in DOMAIN receipts[j] \ WallClockFields |-> receipts[j][k]]]

C8_SameSeedSameReceipts ==
    run.execution = 2 /\ run.pc = "done" =>
        WithoutWallClock(out) = WithoutWallClock(prev.out)

InitCore ==
    /\ clock = 0
    /\ out = <<>>
    /\ ret = NoCall
    /\ state = SimState
    /\ run = Idle
    /\ prev = NoPrev
    /\ urandom = [salt |-> 0, n |-> 0]

NextCore ==
    \/ Call_emit_receipt
    \/ Call_stoprule_detection_rate
    \/ Call_stoprule_memory
    \/ Call_stoprule_consecutive_failures

SpecCore == InitCore /\ [][NextCore]_vars

(***************************************************************************)
(* scenarios.py: the godel scenario and the dispatch by name               *)
(***************************************************************************)
Returned(v) == [value |-> v, raised |-> NoException]

\* str.lower(), for the strings of this model
Lower(s) ==
    CASE s = "Zero Dollar Corp" -> "zero dollar corp"
      [] OTHER -> s

\* ols_contractor_proof.score_contract_fraud, in hundredths
score_contract_fraud(contract, donor_network) ==
    LET contract_type == Lower(Get(contract, "contract_type", ""))
        amount == Get(contract, "amount_usd", 0)
        cost_per_unit == Get(contract, "cost_per_unit_usd", 0)
        market_rate == Get(contract, "market_rate_usd", cost_per_unit)
        contractor_name == Lower(Get(contract, "name", ""))
        donation_total ==
            IF contractor_name \in DOMAIN donor_network
            THEN Get(donor_network[contractor_name], "total_usd", 0) ELSE 0
        score ==
            (IF Contains("emergency", contract_type) THEN 30 ELSE 0)
            + (IF Contains("no-bid", contract_type) \/ Contains("no_bid", contract_type)
               THEN 25 ELSE 0)
            + (IF cost_per_unit > 0 /\ market_rate > 0
               THEN (IF cost_per_unit > market_rate * 3 THEN 25
                     ELSE IF cost_per_unit > market_rate * 2 THEN 15 ELSE 0)
               ELSE 0)
            + (IF donation_total > 100000 THEN 30
               ELSE IF donation_total > 10000 THEN 15 ELSE 0)
            + (IF amount > 50000000 /\ Contains("no-bid", contract_type)
               THEN 10 ELSE 0)
    IN  Returned(Min({100, score}))

\* pac_influence_proof.score_influence_capture, in hundredths, for calls with
\* an empty list of donations or of outcomes (the only calls made here)
score_influence_capture(donations, policy_outcomes) ==
    CASE donations = <<>> \/ policy_outcomes = <<>> -> Returned(0)

\* predatory_lending_proof.calculate_foreclosure_rate, in hundredths
calculate_foreclosure_rate(loans) ==
    IF loans = <<>> THEN Returned(0)
    ELSE LET foreclosed ==
                 {i \in DOMAIN loans :
                     Lower(Get(loans[i], "status", ""))
                         \in {"foreclosed", "foreclosure", "default", "repossessed"}}
         IN  Returned((Cardinality(foreclosed) * 100) \div Len(loans))

\* As EdgeCase, but with no uncertainty receipt for the case
EdgeCase_without_receipt(acc, case, label, reason, attempt, now) ==
    [acc EXCEPT
        !.edge_cases = Append(@, [case |-> case, handled |-> TRUE,
                                  result |-> <<label, attempt.value>>]),
        !.graceful_failures = @ + 1]

\* One try/except block of scenario_godel: the call came back (attempt), so
\* the case is counted and its uncertainty receipt emitted; or it raised, and
\* only the unhandled edge case is noted
EdgeCase(acc, case, label, reason, attempt, now) ==
    IF attempt.raised = NoException
    THEN [acc EXCEPT
            !.edge_cases = Append(@, [case |-> case, handled |-> TRUE,
                                      result |-> <<label, attempt.value>>]),
            !.graceful_failures = @ + 1,
            !.events = Append(@, Emitted(emit_receipt("uncertainty",
                          [tenant_id |-> TENANT_ID, case |-> case, reason |-> reason],
                          now))),
            !.uncertainty_receipts = Append(@, case)]
    ELSE [acc EXCEPT
            !.edge_cases = Append(@, [case |-> case, handled |-> FALSE,
                                      error |-> attempt.raised])]

ScenarioResult(name, passed, metrics, violations) ==
    [name |-> name, passed |-> passed, metrics |-> metrics,
     receipts |-> <<>>, violations |-> violations]

\* scenario_godel(seed): random.seed(seed) is its only use of the seed
scenario_godel(seed, now) ==
    LET start == [edge_cases |-> <<>>, graceful_failures |-> 0,
                  uncertainty_receipts |-> <<>>, events |-> <<>>]
        zero_contract == [name |-> "Zero Dollar Corp", amount_usd |-> 0,
                          contract_type |-> "emergency", cost_per_unit_usd |-> 0]
        negative_donation == [donor |-> "Refund Corp", amount |-> -50000,
                              pac_name |-> "Test PAC"]
        self_ref_donation == [donor |-> "Circular PAC", amount |-> 100000,
                              pac_name |-> "Circular PAC"]
        case1 == EdgeCase(start, "zero_dollar_contract", "fraud_score=",
                          "Zero-dollar contract flagged for review",
                          score_contract_fraud(zero_contract, <<>>), now)
        case2 == EdgeCase(case1, "negative_donation", "capture_score=",
                          "Negative donation rejected",
                          score_influence_capture(<<negative_donation>>, <<>>), now)
        case3 == EdgeCase(case2, "self_referential_pac", "capture_score=",
                          "Self-referential PAC structure detected",
                          score_influence_capture(<<self_ref_donation>>, <<>>), now)
        case4 == EdgeCase(case3, "empty_input", "foreclosure_rate=",
                          "Empty input handled gracefully",
                          calculate_foreclosure_rate(<<>>), now)
        passed == case4.graceful_failures = 4 /\ Len(case4.uncertainty_receipts) = 4
    IN  [value |-> ScenarioResult("godel", passed,
                      [graceful_failures |-> case4.graceful_failures,
                       expected_failures |-> 4,
                       uncertainty_receipts |-> Len(case4.uncertainty_receipts),
                       edge_cases |-> case4.edge_cases],
                      IF passed THEN <<>>
                      ELSE <<<<"edge cases handled gracefully",
                               case4.graceful_failures, 4>>>>),
         events |-> Append(case4.events,
                      Emitted(emit_receipt("godel_scenario",
                          [tenant_id |-> TENANT_ID, passed |-> passed,
                           graceful_failures |-> case4.graceful_failures,
                           uncertainty_receipts |-> Len(case4.uncertainty_receipts)],
                          now))),
         raised |-> NoException]

\* The other five scenarios: whether the synthetic data meets the scenario's
\* threshold (passed) decides the result; each builds a ScenarioResult under
\* its own name and emits its own receipt
ScenarioBody(name, receipt_type, passed, now) ==
    [value |-> ScenarioResult(name, passed, "metrics",
                  IF passed THEN <<>> ELSE <<"threshold not met">>),
     events |-> <<Emitted(emit_receipt(receipt_type,
                    [tenant_id |-> TENANT_ID, passed |-> passed], now))>>,
     raised |-> NoException]

scenario_baseline(passed, now) ==
    ScenarioBody("baseline", "baseline_scenario", passed, now)

scenario_stress(passed, now) ==
    ScenarioBody("stress", "stress_scenario", passed, now)

scenario_genesis(passed, now) ==
    ScenarioBody("genesis", "genesis_scenario", passed, now)

scenario_colony_ridge(passed, now) ==
    ScenarioBody("colony_ridge", "colony_ridge_scenario", passed, now)

scenario_fund_diversion(passed, now) ==
    ScenarioBody("fund_diversion", "fund_diversion_scenario", passed, now)

\* The keys of the dispatch dict
scenarios == {"baseline", "stress", "genesis", "colony_ridge", "fund_diversion",
              "godel"}

\* As run_scenario, but falling back to baseline for an unknown name
run_scenario_with_default(name, passed, seed, now) ==
    CASE name = "stress" -> scenario_stress(passed, now)
      [] name = "genesis" -> scenario_genesis(passed, now)
      [] name = "colony_ridge" -> scenario_colony_ridge(passed, now)
      [] name = "fund_diversion" -> scenario_fund_diversion(passed, now)
      [] name = "godel" -> scenario_godel(seed, now)
      [] OTHER -> scenario_baseline(passed, now)

\* scenarios.run_scenario(name, seed=seed)
run_scenario(name, passed, seed, now) ==
    IF name \notin scenarios
    THEN [value |-> None, events |-> <<Raised(PyException("ValueError"))>>,
          raised |-> PyException("ValueError")]
    ELSE CASE name = "baseline" -> scenario_baseline(passed, now)
           [] name = "stress" -> scenario_stress(passed, now)
           [] name = "genesis" -> scenario_genesis(passed, now)
           [] name = "colony_ridge" -> scenario_colony_ridge(passed, now)
           [] name = "fund_diversion" -> scenario_fund_diversion(passed, now)
           [] name = "godel" -> scenario_godel(seed, now)

MaxTime == 3        \* calls of scenarios are made at times 0..MaxTime - 1

\* Names handed to run_scenario: the six scenarios and three others
RequestedNames == scenarios \cup {"invalid_scenario", "Baseline", ""}

Seeds == {DEFAULT_SEED} \cup (0..MaxSeed)

ScenarioCalled(record) ==
    /\ clock < MaxTime
    /\ clock' = clock + 1
    /\ ret' = record
    /\ out' = EmittedReceipts(record.events)
    /\ UNCHANGED <<state, run, prev, urandom>>

Call_run_scenario ==
    \E name \in RequestedNames, passed \in BOOLEAN, seed \in Seeds :
        LET res == run_scenario(name, passed, seed, clock)
        IN  ScenarioCalled([op |-> "run_scenario", name |-> name, seed |-> seed,
                            at |-> clock, value |-> res.value,
                            events |-> res.events, raised |-> res.raised])

Call_scenario_godel ==
    \E seed \in Seeds :
        LET res == scenario_godel(seed, clock)
        IN  ScenarioCalled([op |-> "scenario_godel", seed |-> seed, at |-> clock,
                            value |-> res.value, events |-> res.events,
                            raised |-> res.raised])

NextScenarios ==
    \/ Call_run_scenario
    \/ Call_scenario_godel

SpecScenarios == InitCore /\ [][NextScenarios]_vars

(***************************************************************************)
(* Properties of scenarios.py                                              *)
(***************************************************************************)
ReceiptTypes(receipts) == [i \in DOMAIN receipts |-> receipts[i].receipt_type]

\* C15: run_scenario(name) with one of the six names runs that scenario and
\* returns a ScenarioResult of that name, the receipts printed being that
\* scenario's, ending with its <name>_scenario receipt; with any other name
\* it raises ValueError, returns nothing and prints no receipt.
C15_DispatchByName ==
    ret.op = "run_scenario" =>
        IF ret.name \in Range(SCENARIO_NAMES)
        THEN /\ ret.raised = NoException
             /\ ret.value.name = ret.name
             /\ out # <<>>
             /\ out[Len(out)].receipt_type = ScenarioReceiptType(ret.name)
             /\ \A j \in 1..(Len(out) - 1) : out[j].receipt_type = "uncertainty"
             /\ ret.name # "godel" => Len(out) = 1
             /\ ret.name = "godel" =>
                    ret.events = scenario_godel(ret.seed, ret.at).events
        ELSE /\ ret.raised = PyException("ValueError")
             /\ ret.value = None
             /\ out = <<>>
             /\ ret.events = <<Raised(PyException("ValueError"))>>

\* run_scenario has come back from a scenario other than the first of the
\* dict, and has refused a name that differs from a key only by its case
C15_Witness ==
    /\ ret.op = "run_scenario"
    /\ \/ ret.name = "fund_diversion" /\ ret.value.name = "fund_diversion"
       \/ ret.name = "Baseline" /\ ret.raised = PyException("ValueError")

\* C16: for every seed scenario_godel handles its four edge cases: it
\* reports graceful_failures = 4, uncertainty_receipts = 4 and passed, and
\* prints exactly four uncertainty receipts, one per edge case, all before
\* its godel_scenario receipt.
C16_GodelHandlesFourEdgeCases ==
    (ret.op = "scenario_godel" \/ (ret.op = "run_scenario" /\ ret.name = "godel"))
    => /\ ret.raised = NoException
       /\ ret.value.passed
       /\ ret.value.violations = <<>>
       /\ ret.value.metrics.graceful_failures = 4
       /\ ret.value.metrics.uncertainty_receipts = 4
       /\ \A j \in 1..4 : ret.value.metrics.edge_cases[j].handled
       /\ ReceiptTypes(out) = <<"uncertainty", "uncertainty", "uncertainty",
                                "uncertainty", "godel_scenario">>
       /\ [j \in 1..4 |-> out[j].case] =
             <<"zero_dollar_contract", "negative_donation",
               "self_referential_pac", "empty_input">>
       /\ out[5].passed /\ out[5].graceful_failures = 4
       /\ out[5].uncertainty_receipts = 4

\* scenario_godel has run with a seed other than the default one
C16_Witness ==
    /\ ret.op = "scenario_godel"
    /\ ret.seed # DEFAULT_SEED
    /\ Len(out) = 5
    /\ ret.value.name = "godel"

(***************************************************************************)
(* Direct calls of merkle (core.py:181-208)                                *)
(***************************************************************************)
MaxItems == 5       \* the longest list handed to merkle

\* Items handed to merkle: a dict, a string, a number
MerkleItems ==
    {[receipt_type |-> "wound", ts |-> 0],
     PyValue("str", "empty"),
     PyValue("int", "7")}

MerkleLists == UNION {[1..n -> MerkleItems] : n \in 0..MaxItems}

Call_merkle ==
    \E items \in MerkleLists :
        /\ ret' = [op |-> "merkle", items |-> items, value |-> merkle(items),
                   events |-> <<>>, raised |-> NoException]
        /\ UNCHANGED <<clock, out, state, run, prev, urandom>>

NextMerkle == Call_merkle

SpecMerkle == InitCore /\ [][NextMerkle]_vars

(***************************************************************************)
(* Properties of merkle                                                    *)
(***************************************************************************)
\* C13: merkle([]) is one fixed hash, that of the sentinel, and merkle([x])
\* differs from it for every single item x, be it a dict, a string or a
\* number (dual_hash taken to be injective).
C13_SingleItemDiffersFromEmpty ==
    /\ merkle(<<>>) = dual_hash(Text("empty"))
    /\ ret.op = "merkle" =>
          /\ ret.items = <<>> => ret.value = merkle(<<>>)
          /\ Len(ret.items) = 1 => ret.value # merkle(<<>>)

\* The part of C13 the code keeps: items whose text is not the sentinel's
C13_Kept_OtherTexts ==
    (ret.op = "merkle" /\ Len(ret.items) = 1
        /\ LeafText(ret.items[1]) # Text("empty"))
    => ret.value # merkle(<<>>)

WithLastRepeated(items) == Append(items, items[Len(items)])

\* C14: for every list L of odd length, 1 included, merkle(L) is
\* merkle(L followed by a copy of its last element).
C14_OddListPadsWithLast ==
    (ret.op = "merkle" /\ Len(ret.items) % 2 = 1)
    => ret.value = merkle(WithLastRepeated(ret.items))

\* C14 as amended: for every list L of odd length 3 or more, merkle(L) is
\* merkle(L followed by a copy of its last element); a list of one item has
\* the hash of that item as its root, with no pairing round.
C14_OddListOfThreeOrMorePadsWithLast ==
    /\ (ret.op = "merkle" /\ Len(ret.items) % 2 = 1 /\ Len(ret.items) >= 3)
        => ret.value = merkle(WithLastRepeated(ret.items))
    /\ (ret.op = "merkle" /\ Len(ret.items) = 1)
        => /\ ret.value = dual_hash(LeafText(ret.items[1]))
           /\ ret.value # merkle(WithLastRepeated(ret.items))

\* merkle has run on three items, the first and the last of them different
C14_Witness ==
    /\ ret.op = "merkle"
    /\ Len(ret.items) = 3
    /\ ret.items[1] # ret.items[3]
    /\ ret.value = merkle(WithLastRepeated(ret.items))

(***************************************************************************)
(* Properties of core.py                                                   *)
(***************************************************************************)
GuardOps ==
    {"stoprule_detection_rate", "stoprule_memory", "stoprule_consecutive_failures"}

AnomalyFields == {"metric", "baseline", "delta", "classification", "action"}

\* C6: a guard that raises StopRuleException has emitted exactly one anomaly
\* receipt, carrying metric, baseline, delta, classification and action, before
\* the raise, with the exception's metric and action; a guard that returns
\* normally has emitted nothing.
C6_AnomalyPrecedesRaise ==
    ret.op \in GuardOps =>
        IF ret.raised.type = "StopRuleException"
        THEN /\ Len(ret.events) = 2
             /\ ret.events[1].ev = "emit"
             /\ ret.events[2] = Raised(ret.raised)
             /\ LET r == ret.events[1].receipt
                IN  /\ r.receipt_type = "anomaly"
                    /\ AnomalyFields \subseteq DOMAIN r
                    /\ r.metric = ret.raised.metric
                    /\ r.action = ret.raised.action
                    /\ out[Len(out)] = r
        ELSE ret.events = <<>>

C6_Witness ==
    /\ ret.op = "stoprule_memory"
    /\ ret.raised.type = "StopRuleException"
    /\ Len(out) = 1

\* C7: each guard raises exactly when its metric strictly violates its bound:
\* detection rate below the threshold (detection_rate, halt), failures above
\* the maximum (consecutive_failures, halt), memory above the limit
\* (memory_usage, compact).
C7_RaisesIffStrictBreach ==
    LET a == ret.args[1]
        b == ret.args[2]
        raises == ret.raised.type = "StopRuleException"
    IN  /\ ret.op = "stoprule_detection_rate" =>
               /\ raises <=> a < b
               /\ raises => ret.raised.metric = "detection_rate"
                             /\ ret.raised.action = "halt"
        /\ ret.op = "stoprule_consecutive_failures" =>
               /\ raises <=> a > b
               /\ raises => ret.raised.metric = "consecutive_failures"
                             /\ ret.raised.action = "halt"
        /\ ret.op = "stoprule_memory" =>
               /\ raises <=> a > b
               /\ raises => ret.raised.metric = "memory_usage"
                             /\ ret.raised.action = "compact"

C7_Witness ==
    /\ ret.op = "stoprule_consecutive_failures"
    /\ ret.args[1] = ret.args[2]
    /\ ret.args[1] = MAX_CONSECUTIVE_FAILURES
    /\ ret.raised = NoException

\* C9: emit_receipt(t, p) returns a receipt whose receipt_type is t, whose
\* tenant_id is p's when supplied and the default otherwise, and whose
\* payload_hash is the dual_hash of the key-sorted serialization of p with the
\* tenant filled in, also when p itself has a key receipt_type or payload_hash.
C9_ReceiptCarriesTypeAndHash ==
    ret.op = "emit_receipt" =>
        LET p == ret.data
            filled == IF "tenant_id" \in DOMAIN p
                      THEN p ELSE p @@ [tenant_id |-> TENANT_ID]
        IN  /\ ret.value.receipt_type = ret.receipt_type
            /\ ret.value.tenant_id = filled.tenant_id
            /\ ret.value.payload_hash = dual_hash(json_dumps_sorted(filled))

(***************************************************************************)
(* Properties of the watcher engine and of genesis                         *)
(***************************************************************************)
Watchers == state.active_watchers

\* C4: create_watcher returns a watcher with status 'blueprint',
\* deactivate_watcher leaves its watcher with status 'inactive', and a watcher
\* that is inactive stays inactive through every call of create_watcher,
\* run_watcher_cycle, measure_watcher_fitness, deactivate_watcher,
\* run_genesis_cycle and simulate_cycle.
C4_InactiveIsFinal ==
    [][/\ ret'.op = "create_watcher" => ret'.value.status = "blueprint"
       /\ ret'.op = "deactivate_watcher" =>
              /\ ret'.value.status = "inactive"
              /\ Watchers'[ret'.target].status = "inactive"
       /\ \A w \in DOMAIN Watchers :
              Watchers[w].status = "inactive" =>
                  /\ w \in DOMAIN Watchers'
                  /\ Watchers'[w].id = Watchers[w].id
                  /\ Watchers'[w].status = "inactive"]_vars

\* A cycle has just run over a receipt that an inactive watcher's trigger
\* accepts
C4_Witness ==
    /\ ret.op = "run_watcher_cycle"
    /\ \E w \in DOMAIN Watchers, j \in DOMAIN ret.batch :
          /\ Watchers[w].status = "inactive"
          /\ Eval(Watchers[w].trigger_condition, ret.batch[j]) = "True"

SpawnedByGenesis(watcher) == watcher.id[1] = "genesis"

\* C5: run_genesis_cycle spawns no watcher whose pattern_name one of the
\* existing watchers has; so after run_genesis_cycle(R, []) returned W,
\* run_genesis_cycle(R, W) spawns nothing (watchers_spawned = 0, new_watchers
\* empty), and the watchers genesis spawned into an accumulated set have
\* pairwise different pattern_names.
C5_GenesisIdempotent ==
    /\ ret.op = "run_genesis_cycle" /\ ret.raised = NoException =>
          LET new == ret.value.new_watchers
          IN  /\ ret.value.watchers_spawned = Len(new)
              /\ \A k \in DOMAIN new :
                    new[k].pattern_name \notin PatternNames(ret.existing)
              /\ (/\ ret.first.op = "run_genesis_cycle"
                  /\ ret.first.raised = NoException
                  /\ ret.first.existing = <<>>
                  /\ ret.first.receipts = ret.receipts
                  /\ ret.existing = ret.first.value.new_watchers)
                 => /\ ret.value.watchers_spawned = 0
                    /\ new = <<>>
    /\ \A a, b \in DOMAIN Watchers :
          (/\ a # b
           /\ SpawnedByGenesis(Watchers[a])
           /\ SpawnedByGenesis(Watchers[b]))
          => Watchers[a].pattern_name # Watchers[b].pattern_name

\* The second of two genesis cycles over one ledger, the first of which
\* started from no watchers and spawned two
C5_Witness ==
    /\ ret.op = "run_genesis_cycle"
    /\ ret.first.op = "run_genesis_cycle"
    /\ ret.first.existing = <<>>
    /\ ret.first.receipts = ret.receipts
    /\ ret.first.value.watchers_spawned = 2
    /\ ret.existing = ret.first.value.new_watchers
    /\ ret.value.watchers_spawned = 0

\* C10: run_watcher_cycle returns normally whatever exception a trigger
\* raises on a receipt: that receipt alone goes without response, and every
\* other pair of an active watcher and a receipt its trigger accepts gets its
\* response.
C10_RaisingTriggerSkipsReceipt ==
    ret.op = "run_watcher_cycle" =>
        /\ ret.raised = NoException
        /\ Len(ret.value) =
              Cardinality({<<w, j>> \in (DOMAIN Watchers) \X (DOMAIN ret.batch) :
                  /\ Watchers[w].status = "active"
                  /\ Eval(Watchers[w].trigger_condition, ret.batch[j]) = "True"})

\* The part of C10 the code keeps: TypeError and ValueError
C10_Kept_TypeErrorSkipsReceipt ==
    (/\ ret.op = "run_watcher_cycle"
     /\ \A j \in DOMAIN ret.batch : IsDict(ret.batch[j]))
    => /\ ret.raised = NoException
       /\ Len(ret.value) =
              Cardinality({<<w, j>> \in (DOMAIN Watchers) \X (DOMAIN ret.batch) :
                  /\ Watchers[w].status = "active"
                  /\ Eval(Watchers[w].trigger_condition, ret.batch[j]) = "True"})

\* watcher.get("activation_count", 0)
Count(watcher) == Get(watcher, "activation_count", 0)

\* C17: every change of a watcher's status is blueprint -> active or
\* active -> inactive, whatever the operation and the status it starts from.
C17_StatusMovesAlongLifecycle ==
    [][\A w \in DOMAIN Watchers :
          (w \in DOMAIN Watchers' /\ Watchers'[w].status # Watchers[w].status)
          => <<Watchers[w].status, Watchers'[w].status>>
                \in {<<"blueprint", "active">>, <<"active", "inactive">>}]_vars

\* The part of C17 the code keeps: the operations other than
\* deactivate_watcher change no status of a watcher they are handed, and
\* deactivate_watcher takes an active watcher to inactive
C17_Kept_OtherOperations ==
    [][\A w \in DOMAIN Watchers :
          (/\ w \in DOMAIN Watchers'
           /\ Watchers'[w].status # Watchers[w].status
           /\ ~(ret'.op = "deactivate_watcher" /\ Watchers[w].status = "blueprint"))
          => <<Watchers[w].status, Watchers'[w].status>>
                \in {<<"blueprint", "active">>, <<"active", "inactive">>}]_vars

\* The pairs (watcher, receipt) of an active watcher and a receipt of the
\* batch that its trigger accepts
Accepting(watchers, batch) ==
    {p \in (DOMAIN watchers) \X (DOMAIN batch) :
        /\ watchers[p[1]].status = "active"
        /\ Eval(watchers[p[1]].trigger_condition, batch[p[2]]) = "True"}

\* The place of pair p among the pairs, by watcher and then by receipt
Rank(p, pairs) ==
    Cardinality({q \in pairs : q[1] < p[1] \/ (q[1] = p[1] /\ q[2] <= p[2])})

\* C18: a call of run_watcher_cycle that returns gives one response for each
\* pair of an active watcher and a receipt of the batch its trigger is true
\* on, in the order of the watchers and then of the receipts; it raises that
\* watcher's activation_count by the number of its responses and leaves the
\* status of every watcher, and the activation_count of every blueprint or
\* inactive watcher, as they were.
C18_OneResponsePerAcceptingPair ==
    [][(ret'.op = "run_watcher_cycle" /\ ret'.raised = NoException) =>
          LET pairs == Accepting(Watchers, ret'.batch)
          IN  /\ Len(ret'.value) = Cardinality(pairs)
              /\ \A p \in pairs :
                    /\ ret'.value[Rank(p, pairs)].watcher_id = Watchers[p[1]].id
                    /\ ret'.value[Rank(p, pairs)].triggered_by = ret'.batch[p[2]]
              /\ DOMAIN Watchers' = DOMAIN Watchers
              /\ \A w \in DOMAIN Watchers :
                    /\ Watchers'[w].status = Watchers[w].status
                    /\ Count(Watchers'[w]) =
                          Count(Watchers[w])
                            + Cardinality({p \in pairs : p[1] = w})]_vars

\* A cycle has returned three responses: one of the first watcher to the
\* second receipt, then two of a later watcher to the first and the third
C18_Witness ==
    /\ ret.op = "run_watcher_cycle"
    /\ ret.raised = NoException
    /\ Len(ret.value) = 3
    /\ ret.value[1].watcher_id = Watchers[1].id
    /\ ret.value[1].triggered_by = ret.batch[2]
    /\ ret.value[2].watcher_id # Watchers[1].id
    /\ ret.value[2].triggered_by = ret.batch[1]
    /\ ret.value[3].watcher_id = ret.value[2].watcher_id
    /\ ret.value[3].triggered_by = ret.batch[3]

\* C19: a watcher's activation_count never decreases, whatever the
\* interleaving of run_watcher_cycle, measure_watcher_fitness and
\* deactivate_watcher, so that the total_activations reported by
\* deactivate_watcher is the number of responses of the watcher's lifetime.
C19_ActivationCountNeverDecreases ==
    [][\A w \in DOMAIN Watchers :
          w \in DOMAIN Watchers' =>
              Count(Watchers'[w]) >= Count(Watchers[w])]_vars

\* The part of C19 the code keeps: deactivate_watcher reports the
\* activation_count the watcher has when it is called, and only
\* measure_watcher_fitness lowers a count
C19_Kept_ReportsCurrentCount ==
    [][/\ ret'.op = "deactivate_watcher" =>
            /\ out'[1].receipt_type = "watcher_deactivated"
            /\ out'[1].total_activations = Count(Watchers[ret'.target])
       /\ ret'.op # "measure_watcher_fitness" =>
            \A w \in DOMAIN Watchers :
                w \in DOMAIN Watchers' =>
                    Count(Watchers'[w]) >= Count(Watchers[w])]_vars

\* The wounds a genesis cycle harvested from the receipts it was handed
Harvested == harvest_wounds(ret.receipts, LOOKBACK_DAYS, clock).value

GroupSize(wounds, wound_type) ==
    Cardinality({i \in DOMAIN wounds : GroupKey(wounds[i]) = wound_type})

WoundTypesOf(wounds) == {GroupKey(wounds[i]) : i \in DOMAIN wounds}

\* C20: a call of run_genesis_cycle that returns spawns a watcher for a
\* group of harvested wounds of one wound_type exactly when the group has at
\* least 5 members and no existing watcher is named genesis_<wound_type>; a
\* group of 4 or fewer never spawns; every spawned watcher is in new_watchers
\* with status 'active', watchers_spawned is len(new_watchers), and each spawn
\* prints one genesis_blueprint receipt followed by one genesis_birth receipt.
C20_SpawnsForRecurringUncoveredGroups ==
    (ret.op = "run_genesis_cycle" /\ ret.raised = NoException) =>
        LET new == ret.value.new_watchers
            spawned(T) == {k \in DOMAIN new : new[k].pattern_name = GenesisName(T)}
        IN  /\ \A T \in WoundTypesOf(Harvested) :
                  /\ Cardinality(spawned(T)) <= 1
                  /\ spawned(T) # {} <=>
                        /\ GroupSize(Harvested, T) >= 5
                        /\ GenesisName(T) \notin PatternNames(ret.existing)
                  /\ GroupSize(Harvested, T) <= 4 => spawned(T) = {}
            /\ \A k \in DOMAIN new :
                  /\ new[k].status = "active"
                  /\ \E T \in WoundTypesOf(Harvested) : k \in spawned(T)
            /\ ret.value.watchers_spawned = Len(new)
            /\ Len(out) = 2 * Len(new)
            /\ \A k \in DOMAIN new :
                  /\ out[2 * k - 1].receipt_type = "genesis_blueprint"
                  /\ out[2 * k - 1].blueprint_id = new[k].id
                  /\ out[2 * k].receipt_type = "genesis_birth"
                  /\ out[2 * k].watcher_id = new[k].id

\* A genesis cycle over two groups of 5 and one of 4 has spawned two
\* watchers, none of them for the group of 4
C20_Witness ==
    /\ ret.op = "run_genesis_cycle"
    /\ ret.raised = NoException
    /\ ret.existing = <<>>
    /\ GroupSize(Harvested, "suspicious_donation") = 4
    /\ GroupSize(Harvested, "audit_delay") = 5
    /\ Len(ret.value.new_watchers) = 2
    /\ Len(out) = 4

\* The genesis_birth receipts among those printed
Births(receipts) ==
    SelectSeq(receipts, LAMBDA r : r.receipt_type = "genesis_birth")

\* C22: run_genesis_cycle leaves the existing watchers and the receipts it
\* was handed as they were; the watchers it spawns reach active_watchers only
\* as the returned new_watchers batch, appended after the call (by the
\* caller, as in simulate_cycle): after a genesis cycle or a simulate_cycle
\* the watchers are those from before, in place, followed by one watcher per
\* genesis_birth receipt printed, and no other operation adds a watcher that
\* genesis made.
C22_GenesisOnlyReturnsNewWatchers ==
    [][/\ ret'.op = "run_genesis_cycle" =>
            /\ ret'.existing = Watchers
            /\ ret'.receipts = state.receipt_ledger
            /\ state'.receipt_ledger = state.receipt_ledger
            /\ Watchers' = Watchers \o ret'.value.new_watchers
       /\ ret'.op \in {"run_genesis_cycle", "simulate_cycle"} =>
            LET births == Births(out')
            IN  /\ Len(Watchers') = Len(Watchers) + Len(births)
                /\ \A w \in DOMAIN Watchers :
                      /\ Watchers'[w].id = Watchers[w].id
                      /\ Watchers'[w].status = Watchers[w].status
                      /\ Watchers'[w].pattern_name = Watchers[w].pattern_name
                      /\ Watchers'[w].trigger_condition = Watchers[w].trigger_condition
                /\ \A k \in DOMAIN births :
                      Watchers'[Len(Watchers) + k].id = births[k].watcher_id
       /\ ret'.op \notin {"run_genesis_cycle", "simulate_cycle"} =>
            \A w \in DOMAIN Watchers' :
                SpawnedByGenesis(Watchers'[w]) =>
                    w \in DOMAIN Watchers /\ Watchers[w].id = Watchers'[w].id]_vars

\* A simulate_cycle whose genesis cycle spawned watchers while there were
\* watchers already
C22_Witness ==
    /\ ret.op = "simulate_cycle"
    /\ ret.raised = NoException
    /\ Births(out) # <<>>
    /\ Len(Watchers) > Len(Births(out))
    /\ SpawnedByGenesis(Watchers[Len(Watchers)])
    /\ ~SpawnedByGenesis(Watchers[1])

IsPrefix(s, t) == Len(s) <= Len(t) /\ SubSeq(t, 1, Len(s)) = s

\* A response of run_watcher_cycle, as it lies in the ledger
IsResponse(entry) == {"watcher_id", "triggered_by", "action"} \subseteq DOMAIN entry

\* C23: the ledger is append-only: through every step the earlier
\* receipt_ledger and wound_history are prefixes of the later ones, and a
\* simulate_cycle appends at most one wound, to both, followed in the ledger
\* by the responses of that cycle's watchers.
C23_LedgerIsAppendOnly ==
    [][/\ IsPrefix(state.receipt_ledger, state'.receipt_ledger)
       /\ IsPrefix(state.wound_history, state'.wound_history)
       /\ ret'.op # "simulate_cycle" =>
              /\ state'.receipt_ledger = state.receipt_ledger
              /\ state'.wound_history = state.wound_history
       /\ ret'.op = "simulate_cycle" =>
            LET old == Len(state.receipt_ledger)
                wounds == Len(state'.wound_history) - Len(state.wound_history)
            IN  /\ wounds \in {0, 1}
                /\ wounds = 1 =>
                      /\ Len(state'.receipt_ledger) > old
                      /\ state'.receipt_ledger[old + 1] =
                            state'.wound_history[Len(state'.wound_history)]
                      /\ state'.receipt_ledger[old + 1].cycle = state'.cycle
                /\ \A j \in (old + wounds + 1)..Len(state'.receipt_ledger) :
                      IsResponse(state'.receipt_ledger[j])]_vars

\* A simulate_cycle has appended its wound and, after it, a response
C23_Witness ==
    /\ ret.op = "simulate_cycle"
    /\ ret.raised = NoException
    /\ state.wound_history # <<>>
    /\ \E j \in DOMAIN state.receipt_ledger :
          /\ j < Len(state.receipt_ledger)
          /\ state.receipt_ledger[j] = state.wound_history[Len(state.wound_history)]
          /\ state.receipt_ledger[j].cycle = state.cycle
          /\ \A i \in (j + 1)..Len(state.receipt_ledger) :
                IsResponse(state.receipt_ledger[i])

(***************************************************************************)
(* Direct calls of harvest_wounds (genesis.py:21-48)                       *)
(***************************************************************************)
MaxReceipts == 3    \* the longest list handed to harvest_wounds

\* datetime.utcnow() at the call, as a day number
HarvestNow == 40

\* A receipt of a type with a ts; ts = NoTs is a receipt without the key
Stamped(receipt_type, ts) ==
    IF ts = NoTs THEN [receipt_type |-> receipt_type]
    ELSE [receipt_type |-> receipt_type, ts |-> ts]

\* Timestamps: within the window, before it, malformed text, no string
\* (None or a number), and none
HarvestStamps == {HarvestNow - 1, HarvestNow - LOOKBACK_DAYS - 5, BadTs, NonStringTs, NoTs}

HarvestReceipts ==
    {Stamped(t, ts) : t \in {"wound", "constraint_violation", "ingest"},
                      ts \in HarvestStamps}

HarvestLists == UNION {[1..n -> HarvestReceipts] : n \in 0..MaxReceipts}

Call_harvest_wounds ==
    /\ ret.op = "none"
    /\ LET res == harvest_wounds(state.receipt_ledger, LOOKBACK_DAYS, clock)
       IN  ret' = [op |-> "harvest_wounds", receipts |-> state.receipt_ledger,
                   value |-> IF res.raised = NoException THEN res.value ELSE None,
                   events |-> IF res.raised = NoException THEN <<>>
                              ELSE <<Raised(res.raised)>>,
                   raised |-> res.raised]
    /\ UNCHANGED <<clock, out, state, run, prev, urandom>>

InitHarvest ==
    /\ clock = HarvestNow
    /\ out = <<>>
    /\ ret = NoCall
    /\ \E receipts \in HarvestLists :
          state = [SimState EXCEPT !.receipt_ledger = receipts]
    /\ run = Idle
    /\ prev = NoPrev
    /\ urandom = [salt |-> 0, n |-> 0]

NextHarvest == Call_harvest_wounds

SpecHarvest == InitHarvest /\ [][NextHarvest]_vars

(***************************************************************************)
(* Properties of harvest_wounds                                            *)
(***************************************************************************)
\* Whether the spec wants receipt r among the wounds: a wound type, and a
\* timestamp inside the window or one that cannot be parsed
Wanted(r, now) ==
    /\ \E word \in {"wound", "anomaly", "violation"} :
          Contains(word, Get(r, "receipt_type", ""))
    /\ LET ts == Get(r, "ts", NoTs)
       IN  ts < 0 \/ ts >= now - LOOKBACK_DAYS

\* C21: harvest_wounds returns, in input order, exactly the receipts of a
\* wound type whose timestamp lies within the window or cannot be parsed; a
\* timestamp that cannot be parsed never raises, and receipts of other types
\* are never returned.
C21_HarvestKeepsUnparsable ==
    ret.op = "harvest_wounds" =>
        /\ ret.raised = NoException
        /\ ret.value = SelectSeq(ret.receipts, LAMBDA r : Wanted(r, clock))

\* The part of C21 the code keeps: lists in which every ts that is present
\* is a string
C21_Kept_StringStamps ==
    (/\ ret.op = "harvest_wounds"
     /\ \A j \in DOMAIN ret.receipts :
           ~(/\ Get(ret.receipts[j], "ts", NoTs) = NonStringTs
             /\ Wanted(ret.receipts[j], clock)))
    => /\ ret.raised = NoException
       /\ ret.value = SelectSeq(ret.receipts, LAMBDA r : Wanted(r, clock))

(***************************************************************************)
(* Properties of the cycles of run_simulation                              *)
(***************************************************************************)
Multiples(step, upto) == [j \in 1..(upto \div step) |-> step * j]

\* What the last step printed
Printed(before, after) == SubSeq(after, Len(before) + 1, Len(after))

Positions(receipts, types) ==
    {j \in DOMAIN receipts : receipts[j].receipt_type \in types}

C24_SpawnedWatcherWaitsForNextCycle ==
    [][ret'.op = "simulate_cycle" =>
            LET genesis == Positions(out', {"genesis_blueprint", "genesis_birth"})
                watchers == Positions(out', {"watcher_triggered"})
            IN  /\ \A g \in genesis, w \in watchers : w < g
                /\ \A w \in (Len(Watchers) + 1)..Len(Watchers') :
                      /\ Count(Watchers'[w]) = 0
                      /\ \A j \in watchers : out'[j].watcher_id # Watchers'[w].id
                      /\ \A j \in DOMAIN state'.receipt_ledger :
                            IsResponse(state'.receipt_ledger[j]) =>
                                state'.receipt_ledger[j].watcher_id # Watchers'[w].id]_vars

\* A simulate_cycle has spawned a watcher whose trigger accepts a receipt of
\* the window the watchers of that cycle ran over
C24_SpawnedWatcherHadWork ==
    /\ ret.op = "simulate_cycle"
    /\ Births(out) # <<>>
    /\ \E w \in DOMAIN Watchers, j \in DOMAIN state.receipt_ledger :
          /\ SpawnedByGenesis(Watchers[w])
          /\ Count(Watchers[w]) = 0
          /\ j > Len(state.receipt_ledger) - WATCHER_WINDOW
          /\ Eval(Watchers[w].trigger_condition, state.receipt_ledger[j]) = "True"

\* The scenario receipts and anomaly receipts a scenario prints
ScenarioOutput ==
    {ScenarioReceiptType(SCENARIO_NAMES[j]) : j \in DOMAIN SCENARIO_NAMES}
        \cup {"anomaly"}

\* C25: a run_simulation that returns has printed exactly one sim_complete
\* receipt, as the last thing printed, after everything the scenarios
\* printed, also when the scenarios were aborted early; its scenarios_run,
\* watchers_active, total_receipts, all_passed and receipt_hash are
\* len(scenario_results), len(active_watchers), len(receipt_ledger), the
\* returned all_passed and the returned receipt_hash; before the return
\* nothing printed is a sim_complete receipt.
C25_OneSimCompleteAtTheEnd ==
    /\ run.pc = "done" =>
          LET last == out[Len(out)]
              final == run.result.final_state
          IN  /\ Positions(out, {"sim_complete"}) = {Len(out)}
              /\ \A j \in Positions(out, ScenarioOutput) : j < Len(out)
              /\ last.scenarios_run = Cardinality(DOMAIN run.result.scenario_results)
              /\ last.watchers_active = Len(final.active_watchers)
              /\ last.total_receipts = Len(final.receipt_ledger)
              /\ last.all_passed = run.result.all_passed
              /\ last.receipt_hash = run.result.receipt_hash
              /\ last.cycles = run.config.n_cycles
    /\ run.pc \in {"start", "cycles", "scenarios", "break", "finish", "raised"} =>
          Positions(out, {"sim_complete"}) = {}

\* A run whose scenarios were aborted after three failures has returned
C25_Witness ==
    /\ run.pc = "done"
    /\ Aborted(run.result.violations)
    /\ out[Len(out)].receipt_type = "sim_complete"
    /\ out[Len(out)].scenarios_run = MAX_CONSECUTIVE_FAILURES + 1
    /\ out[Len(out)].total_receipts > 0

\* C26: the all_passed run_simulation returns is true exactly when all six
\* scenarios were run and each returned passed == true; a scenario that
\* returned passed == false, a StopRuleException or an early abort makes it
\* false; while the scenarios run, all_passed tells whether all so far passed.
C26_AllPassedIffSixPassed ==
    /\ run.pc = "done" =>
          LET results == run.result.scenario_results
          IN  /\ run.result.all_passed <=>
                    /\ Range(run.started) = Range(SCENARIO_NAMES)
                    /\ DOMAIN results = Range(SCENARIO_NAMES)
                    /\ \A name \in DOMAIN results : results[name].passed
                    /\ \A name \in DOMAIN run.outcomes : run.outcomes[name] = "pass"
              /\ (\E name \in DOMAIN run.outcomes :
                      run.outcomes[name] \in {"fail", "stop_rule"})
                    => ~run.result.all_passed
              /\ Aborted(run.result.violations) => ~run.result.all_passed
              /\ Len(run.started) < Len(SCENARIO_NAMES) => ~run.result.all_passed
    /\ run.pc \in {"scenarios", "finish"} =>
          (run.all_passed <=>
              \A name \in DOMAIN run.outcomes : run.outcomes[name] = "pass")

\* A run in which all six scenarios passed has returned all_passed == true
C26_Witness ==
    /\ run.pc = "done"
    /\ run.result.all_passed
    /\ Cardinality(DOMAIN run.result.scenario_results) = Len(SCENARIO_NAMES)
    /\ \A name \in Range(SCENARIO_NAMES) : run.outcomes[name] = "pass"

\* A run in which the only failure was a passed == false result of the last
\* scenario has returned all_passed == false
C26_OneFailureSeen ==
    /\ run.pc = "done"
    /\ ~run.result.all_passed
    /\ ~Aborted(run.result.violations)
    /\ \A j \in 1..(Len(SCENARIO_NAMES) - 1) : run.outcomes[SCENARIO_NAMES[j]] = "pass"
    /\ run.outcomes[SCENARIO_NAMES[Len(SCENARIO_NAMES)]] = "fail"

\* C27: at every point of run_simulation the pattern names of
\* state.active_watchers are pairwise distinct, every watcher of the list has
\* status "active", and the list holds at most 6 + 4 watchers (the bootstrap
\* watchers and one per wound type of simulate_cycle); no step of the run
\* shrinks the list: the list before a step is a prefix of the list after it,
\* up to what the step changed inside a watcher.
C27_WatchersDistinctActiveAndGrowing ==
    /\ [](/\ \A i, j \in DOMAIN state.active_watchers :
                state.active_watchers[i].pattern_name
                    = state.active_watchers[j].pattern_name => i = j
          /\ \A j \in DOMAIN state.active_watchers :
                state.active_watchers[j].status = "active"
          /\ Len(state.active_watchers) <= 6 + Len(WoundTypes)
          /\ run.pc \notin {"start"} => Len(state.active_watchers) >= 6)
    /\ [][/\ Len(state'.active_watchers) >= Len(state.active_watchers)
          /\ \A j \in DOMAIN state.active_watchers :
                state'.active_watchers[j].pattern_name
                    = state.active_watchers[j].pattern_name]_vars

\* A run whose genesis cycles added a watcher for two or more wound types
C27_Witness ==
    /\ run.pc = "done"
    /\ Len(state.active_watchers) >= 8
    /\ Cardinality({state.active_watchers[j].pattern_name : j \in DOMAIN state.active_watchers})
          = Len(state.active_watchers)
    /\ Len(run.genesis_at) = 2

\* A run whose genesis cycles added a watcher for each of the four wound types
C27_AllFourSpawned ==
    Len(state.active_watchers) = 6 + Len(WoundTypes)

\* C28: in run_simulation no watcher's trigger is ever true: no cycle yields
\* a response or prints a watcher_triggered receipt, so the receipt ledger
\* equals wound_history at every cycle, every watcher's activation_count
\* stays 0, and after k cycles cycle = len(entropy_trace) = k and
\* len(wound_history) <= k.
C28_NoWatcherEverFires ==
    /\ Positions(out, {"watcher_triggered"}) = {}
    /\ state.receipt_ledger = state.wound_history
    /\ \A j \in DOMAIN state.receipt_ledger : ~IsResponse(state.receipt_ledger[j])
    /\ \A j \in DOMAIN state.active_watchers : Count(state.active_watchers[j]) = 0
    /\ run.pc \in {"cycles", "scenarios", "break", "finish", "done"} =>
          /\ state.cycle = run.k
          /\ Len(state.entropy_trace) = run.k
          /\ Len(state.wound_history) <= run.k
          /\ \A j \in DOMAIN state.wound_history :
                state.wound_history[j].cycle \in 1..run.k

\* After the last of 100 cycles: genesis watchers have watched wounds of
\* their own type, and none has fired
C28_Witness ==
    /\ run.pc = "scenarios"
    /\ run.k = MaxCycles
    /\ \E w \in DOMAIN state.active_watchers :
          /\ state.active_watchers[w].trigger_condition.kind = "genesis"
          /\ \E j \in DOMAIN state.receipt_ledger :
                /\ state.receipt_ledger[j].wound_type
                       = state.active_watchers[w].trigger_condition.rt
                /\ state.receipt_ledger[j].cycle > GENESIS_INTERVAL
    /\ \A j \in DOMAIN state.active_watchers : Count(state.active_watchers[j]) = 0
    /\ state.receipt_ledger = state.wound_history
    /\ state.receipt_ledger # <<>>

(***************************************************************************)
(* Properties of genesis over deactivated watchers                         *)
(***************************************************************************)
GenesisTypes == Range(WoundTypes) \cup {"unknown"}

\* The watchers of `watchers` named genesis_<wound_type> with this status
Covering(watchers, wound_type, status) ==
    {w \in DOMAIN watchers :
        /\ watchers[w].pattern_name = GenesisName(wound_type)
        /\ watchers[w].status = status}

\* The patterns of this wound type a genesis cycle found recurring
Recurring(patterns, wound_type) ==
    {k \in DOMAIN patterns :
        /\ patterns[k].wound_type = wound_type
        /\ patterns[k].exceeds_threshold}

\* C29: a deactivated watcher still covers its pattern: while a watcher named
\* genesis_<T> is inactive, a run_genesis_cycle spawns no watcher for wound
\* type T, although the wounds of type T recur in the ledger, and no call
\* gives T an active watcher: every watcher named genesis_<T> is inactive
\* after the call too.
C29_InactiveWatcherStillCovers ==
    [][\A T \in GenesisTypes :
          Covering(Watchers, T, "inactive") # {} =>
              /\ ret'.op = "run_genesis_cycle" =>
                    \A k \in DOMAIN ret'.value.new_watchers :
                        /\ ret'.value.new_watchers[k].wound_type # T
                        /\ ret'.value.new_watchers[k].pattern_name # GenesisName(T)
              /\ Covering(Watchers', T, "inactive") # {}
              /\ Covering(Watchers, T, "active") = {} =>
                    Covering(Watchers', T, "active") = {}]_vars

\* A genesis cycle has just found the wounds of a type recurring whose
\* watcher had been deactivated, and spawned none for it
C29_Witness ==
    /\ ret.op = "run_genesis_cycle"
    /\ ret.raised = NoException
    /\ \E T \in GenesisTypes :
          /\ Covering(ret.existing, T, "inactive") # {}
          /\ Covering(ret.existing, T, "active") = {}
          /\ Recurring(ret.value.patterns, T) # {}
          /\ Covering(Watchers, T, "active") = {}
          /\ \A k \in DOMAIN ret.value.new_watchers :
                ret.value.new_watchers[k].wound_type # T

\* The same after a simulate_cycle added a wound since the deactivation
C29_MoreWoundsSeen ==
    /\ C29_Witness
    /\ state.wound_history # <<>>

(***************************************************************************)
(* watcher.spawn_watcher and scenarios.scenario_genesis, cycle by cycle    *)
(***************************************************************************)
\* f"wound_{wound_type}"
WoundName(wound_type) ==
    CASE wound_type = "high_risk_contract" -> "wound_high_risk_contract"
      [] wound_type = "suspicious_donation" -> "wound_suspicious_donation"
      [] wound_type = "unauthorized_invoice" -> "wound_unauthorized_invoice"
      [] wound_type = "audit_delay" -> "wound_audit_delay"
      [] wound_type = "unknown" -> "wound_unknown"

\* r.get("wound_type", "unknown")
SpawnKey(r) == Get(r, "wound_type", "unknown")

\* Counter(...)[wound_type]
SpawnCount(wound_receipts, wound_type) ==
    Cardinality({i \in DOMAIN wound_receipts : SpawnKey(wound_receipts[i]) = wound_type})

\* The keys of the Counter in insertion order
SpawnKeys(wound_receipts) ==
    LET firsts == {i \in DOMAIN wound_receipts :
                      \A j \in 1..(i - 1) :
                          SpawnKey(wound_receipts[j]) # SpawnKey(wound_receipts[i])}
    IN  [k \in 1..Cardinality(firsts) |->
            SpawnKey(wound_receipts[CHOOSE i \in firsts :
                                       Cardinality({x \in firsts : x < i}) = k - 1])]

\* Counter.most_common()[0][0]: the largest count, the first inserted among
\* equals
MostCommon(wound_receipts) ==
    LET keys == SpawnKeys(wound_receipts)
        best == CHOOSE k \in DOMAIN keys :
                    \A j \in DOMAIN keys :
                        \/ SpawnCount(wound_receipts, keys[k])
                              > SpawnCount(wound_receipts, keys[j])
                        \/ /\ SpawnCount(wound_receipts, keys[k])
                                 = SpawnCount(wound_receipts, keys[j])
                           /\ k <= j
    IN  keys[best]

\* spawn_watcher, "Create watcher for this wound type" to the return
\* (watcher.py:137-161); the wounds carry no resolved_at, so resolution_times
\* is empty and median_resolution is 0
SpawnedWatcher(wound_type, count, threshold, now, ur) ==
    LET made == create_watcher(WoundName(wound_type),
                               Trigger("wound_type", wound_type, "wound_type", 0),
                               now, ur)
        watcher == [status |-> "active",
                    spawn_source |-> "wound_pattern",
                    wound_count |-> count,
                    median_resolution_minutes |-> 0,
                    is_autocatalytic |-> count >= threshold * 2] @@ made.value
    IN  [value |-> watcher,
         events |-> made.events \o
            <<Emitted(emit_receipt("watcher_spawned",
                [tenant_id |-> TENANT_ID, watcher_id |-> watcher.id,
                 pattern_name |-> watcher.pattern_name,
                 wound_count |-> count,
                 median_resolution_minutes |-> 0,
                 is_autocatalytic |-> watcher.is_autocatalytic], now))>>,
         urandom |-> made.urandom]

\* return None
NotSpawned(ur) ==
    [value |-> PyValue("NoneType", "None"), events |-> <<>>, urandom |-> ur]

\* As spawn_watcher, but spawning only at twice the threshold
spawn_watcher_at_twice_threshold(wound_receipts, threshold, now, ur) ==
    IF Len(wound_receipts) < threshold THEN NotSpawned(ur)
    ELSE LET wound_type == MostCommon(wound_receipts)
             count == SpawnCount(wound_receipts, wound_type)
         IN  IF count >= threshold * 2
             THEN SpawnedWatcher(wound_type, count, threshold, now, ur)
             ELSE NotSpawned(ur)

\* watcher.spawn_watcher: the watcher or None (value), what it printed; the
\* loop over most_common() returns at its first turn whose count reaches the
\* threshold, and the counts only fall from turn to turn
spawn_watcher(wound_receipts, threshold, now, ur) ==
    IF Len(wound_receipts) < threshold THEN NotSpawned(ur)
    ELSE LET wound_type == MostCommon(wound_receipts)
             count == SpawnCount(wound_receipts, wound_type)
         IN  IF count >= threshold
             THEN SpawnedWatcher(wound_type, count, threshold, now, ur)
             ELSE NotSpawned(ur)

GENESIS_MIN_WATCHERS == 1

MaxGenesisCycles == 500     \* the longest n_cycles handed to scenario_genesis

SPAWN_INTERVAL == 50
SPAWN_THRESHOLD == 5

\* The wound_types list of scenario_genesis
GenesisWoundTypes ==
    <<"unauthorized_invoice", "audit_delay", "high_risk_contract", "suspicious_donation">>

\* The locals of one scenario_genesis(n_cycles, wound_rate, seed) after
\* random.seed(seed)
GenesisFrame(n_cycles, wound_rate, seed) ==
    [pc |-> "loop", n_cycles |-> n_cycles, wound_rate |-> wound_rate,
     seed |-> seed, rng |-> Seeded(seed), cycle |-> 0,
     receipts |-> <<>>, watchers |-> <<>>, spawn_calls |-> <<>>,
     raised |-> NoException, result |-> [returned |-> FALSE]]

\* scenario_genesis, "Generate wound with some probability": the receipts and
\* the generator after it; the day of January 2024 stands for ts and
\* created_at, fraud_probability is in hundredths
GenesisWound(receipts, cycle, wound_rate, rng) ==
    LET d1 == NextRng(rng)
        d2 == NextRng(d1)
        d3 == NextRng(d2)
        d4 == NextRng(d3)
        wound == [receipt_type |-> "wound",
                  wound_type |-> Choice(GenesisWoundTypes, d2),
                  ts |-> (cycle % 28) + 1,
                  created_at |-> (cycle % 28) + 1,
                  severity |-> Choice(Severities, d3),
                  fraud_probability |-> 50 + Random(d4) \div 2]
    IN  IF Random(d1) < wound_rate
        THEN [receipts |-> Append(receipts, wound), rng |-> d4]
        ELSE [receipts |-> receipts, rng |-> d1]

\* if cycle % 50 == 0 and cycle > 0
SpawnDue(cycle) == cycle % SPAWN_INTERVAL = 0 /\ cycle > 0

\* What a turn of the loop leaves once its wound is drawn and spawn_watcher,
\* if due, has returned `spawned`
AfterSpawn(frame, wounded, spawned) ==
    [frame |-> [frame EXCEPT
                  !.receipts = wounded.receipts,
                  !.rng = wounded.rng,
                  !.cycle = @ + 1,
                  !.spawn_calls = IF SpawnDue(frame.cycle)
                                  THEN Append(@, frame.cycle) ELSE @,
                  !.watchers = IF IsDict(spawned.value)
                               THEN Append(@, spawned.value) ELSE @],
     events |-> spawned.events,
     urandom |-> spawned.urandom]

\* wounds = [r for r in receipts if r.get("receipt_type") == "wound"]
WoundsOf(receipts) ==
    SelectSeq(receipts, LAMBDA r : Get(r, "receipt_type", None) = "wound")

\* The turn from "Try to spawn watchers periodically" on
AfterGenesisWound(frame, wounded, now, ur) ==
    AfterSpawn(frame, wounded,
               IF SpawnDue(frame.cycle)
               THEN spawn_watcher(WoundsOf(wounded.receipts), SPAWN_THRESHOLD, now, ur)
               ELSE NotSpawned(ur))

\* One turn of the for loop of scenario_genesis: the locals after it, what it
\* printed, the operating system's randomness after it
GenesisTurn(frame, now, ur) ==
    AfterGenesisWound(frame,
        GenesisWound(frame.receipts, frame.cycle, frame.wound_rate, frame.rng),
        now, ur)

\* watcher_details
WatcherDetails(watchers) ==
    [j \in DOMAIN watchers |->
        [id |-> Get(watchers[j], "id", None),
         pattern |-> Get(watchers[j], "pattern_name", None),
         fitness |-> Get(watchers[j], "fitness", 0)]]

\* The ScenarioResult scenario_genesis returns
GenesisResult(watchers, gen, receipts) ==
    [name |-> "genesis",
     passed |-> Len(watchers) >= GENESIS_MIN_WATCHERS,
     metrics |-> [spawned_watchers |-> Len(watchers),
                  patterns_identified |-> Get(gen.value, "patterns_identified", 0),
                  wounds_harvested |-> Get(gen.value, "wounds_harvested", 0),
                  threshold |-> GENESIS_MIN_WATCHERS,
                  watcher_details |-> WatcherDetails(watchers)],
     receipts |-> receipts,
     violations |-> IF Len(watchers) >= GENESIS_MIN_WATCHERS THEN <<>>
                    ELSE <<(<<"Spawned watchers below threshold", Len(watchers)>>)>>]

\* scenario_genesis from "Measure fitness of spawned watchers" on, the
\* measurements being `measured`
AfterMeasure(frame, gen, measured, now) ==
    IF \E j \in DOMAIN measured : measured[j].raised # NoException
    THEN [frame |-> [frame EXCEPT !.pc = "raised",
                        !.raised = measured[Min({j \in DOMAIN measured :
                                        measured[j].raised # NoException})].raised],
          events |-> gen.events, urandom |-> gen.urandom]
    ELSE [frame |-> [frame EXCEPT
                        !.pc = "done",
                        !.watchers = [j \in DOMAIN measured |-> measured[j].watcher],
                        !.result = [returned |-> TRUE,
                                    value |-> GenesisResult(
                                        [j \in DOMAIN measured |-> measured[j].watcher],
                                        gen, frame.receipts)]],
          events |-> gen.events \o
              <<Emitted(emit_receipt("genesis_scenario",
                    [tenant_id |-> TENANT_ID,
                     passed |-> Len(measured) >= GENESIS_MIN_WATCHERS,
                     spawned_watchers |-> Len(measured),
                     threshold |-> GENESIS_MIN_WATCHERS], now))>>,
          urandom |-> gen.urandom]

\* The for loop over the watchers, measure_watcher_fitness(w, receipts)
Measured(watchers, receipts) ==
    [j \in DOMAIN watchers |-> measure_watcher_fitness(watchers[j], receipts)]

\* scenario_genesis once run_genesis_cycle returned `gen`
AfterScenarioGenesis(frame, gen, now) ==
    IF gen.raised # NoException
    THEN [frame |-> [frame EXCEPT !.pc = "raised", !.raised = gen.raised],
          events |-> gen.events, urandom |-> gen.urandom]
    ELSE AfterMeasure(frame, gen,
            Measured(frame.watchers \o gen.value.new_watchers, frame.receipts), now)

\* scenario_genesis from "Run genesis cycle" to the return
GenesisEnd(frame, now, ur) ==
    AfterScenarioGenesis(frame,
        run_genesis_cycle(frame.receipts, frame.watchers, now, ur), now)

Genesis_Cycle ==
    /\ run.pc = "loop"
    /\ run.cycle < run.n_cycles
    /\ LET turn == GenesisTurn(run, clock, urandom)
       IN  /\ run' = turn.frame
           /\ out' = out \o EmittedReceipts(turn.events)
           /\ urandom' = turn.urandom
    /\ UNCHANGED <<clock, ret, state, prev>>

Genesis_Finish ==
    /\ run.pc = "loop"
    /\ run.cycle = run.n_cycles
    /\ LET end == GenesisEnd(run, clock, urandom)
       IN  /\ run' = end.frame
           /\ out' = out \o EmittedReceipts(end.events)
           /\ urandom' = end.urandom
    /\ UNCHANGED <<clock, ret, state, prev>>

\* Calls of scenario_genesis: none, some and the default number of cycles,
\* the default wound rate and a higher one, made on the last day the wounds
\* are stamped with and more than LOOKBACK_DAYS later
InitGenesis ==
    /\ clock \in {28, 400}
    /\ out = <<>>
    /\ ret = NoCall
    /\ state = SimState
    /\ \E n_cycles \in {0, 120, MaxGenesisCycles}, wound_rate \in {10, 40},
          seed \in {DEFAULT_SEED} \cup 0..MaxSeed :
          run = GenesisFrame(n_cycles, wound_rate, seed)
    /\ prev = NoPrev
    /\ urandom = [salt |-> 0, n |-> 0]

NextGenesis ==
    \/ Genesis_Cycle
    \/ Genesis_Finish

SpecGenesis == InitGenesis /\ [][NextGenesis]_vars

(***************************************************************************)
(* Properties of scenario_genesis                                          *)
(***************************************************************************)
WoundTypeCount(wounds, wound_type) ==
    Cardinality({i \in DOMAIN wounds : wounds[i].wound_type = wound_type})

\* The watchers spawn_watcher made
FromWounds(watchers) ==
    SelectSeq(watchers, LAMBDA w : Get(w, "spawn_source", None) = "wound_pattern")

C30_OneNameOnly ==
    /\ run.pc = "done"
    /\ Len(run.watchers) >= 2
    /\ \A a, b \in DOMAIN run.watchers :
          run.watchers[a].pattern_name = run.watchers[b].pattern_name

====
